---- MODULE Spec2Model ----
(***************************************************************************)
(* DutchVocabBot: the SM-2 style scheduler (spaced_repetition.py), the     *)
(* storage rows it works on (data/models.py) and the bot handlers that     *)
(* drive it (bot.py), as a state machine.                                  *)
(*                                                                         *)
(* Units.  Time is counted in whole days (datetime differences are read    *)
(* through timedelta.days by the code).  ease_factor and mastery_level are *)
(* decimals with one digit in every reachable state, and are kept in       *)
(* tenths: 25 is 2.5, 13 is 1.3, 30 is 3.0; mastery 1 is 0.1.              *)
(* NULL stands for SQL NULL / Python None.                                 *)
(***************************************************************************)
EXTENDS Integers, Sequences, FiniteSets, TLC

VARIABLES users, words, sessions, ctx, is_trained, fitted, bandit_models, now,
          last, last_answer, streak, reward_log, last_pick, last_save, exercise,
          checked, cycles, retrained, applied, progress

vars == <<users, words, sessions, ctx, is_trained, fitted, bandit_models, now,
          last, last_answer, streak, reward_log, last_pick, last_save, exercise,
          checked, cycles, retrained, applied, progress>>

\* The stored arms and the observers of the bandit and of the predictor's fit.
bandit_vars == <<fitted, bandit_models, reward_log, last_pick, last_save>>

(***************************************************************************)
(* Bounds of the model.                                                    *)
(***************************************************************************)
MaxDay == 2
MaxWords == 3
MaxUpdates == 3
NumDefaultWords == 2
MaxStreak == 6
MaxFlowSessions == 3
MaxFlowDirect == 1
MaxWordCount == 1
MaxRewardUpdates == 10
MaxTrainWords == 5
MaxPrompts == 10
MaxAnswers == 10

(***************************************************************************)
(* Program constants.                                                      *)
(***************************************************************************)
default_ease_factor == 25
min_ease_factor == 13
max_ease_factor == 30
ease_factor_bonus == 1
ease_factor_penalty == 2
first_interval == 1
second_interval == 6
relearn_interval == 1
retrain_every == 10
min_training_rows == 5
mastered_threshold == 7
MasteryOne == 10
epsilon == 1
context_dim == 10
retrain_size == 10
min_fit_rows == 5
query_limit == 50
num_wrong_options == 3

NULL == -1
Raised == -2
Retrained == -3

TelegramIds == {101, 102}
Learner == CHOOSE tg \in TelegramIds : \A other \in TelegramIds : tg <= other
Texts == 1..(NumDefaultWords + 1)
DefaultTexts == 1..NumDefaultWords
exercise_types ==
    {"multiple_choice_en_to_nl", "multiple_choice_nl_to_en",
     "translation_en_to_nl", "translation_nl_to_en"}
ResponseTimes == {0, 7}
\* The formats the runs draw from the four: one by button, one typed.
DrawnFormats == {"multiple_choice_en_to_nl", "translation_nl_to_en"}

Max(a, b) == IF a >= b THEN a ELSE b
Min(a, b) == IF a <= b THEN a ELSE b

(***************************************************************************)
(* Rows.                                                                   *)
(***************************************************************************)
UserWord(user_id, dutch_word) ==
    [user_id |-> user_id, dutch_word |-> dutch_word, is_active |-> TRUE,
     mastery_level |-> 0, last_seen |-> NULL, times_seen |-> 0,
     times_correct |-> 0, average_response_time |-> 0,
     next_review_date |-> NULL, repetition_count |-> 0,
     ease_factor |-> default_ease_factor]

LearningSession(user_id, user_word_id, exercise_type, is_correct, response_time, timestamp) ==
    [user_id |-> user_id, user_word_id |-> user_word_id,
     exercise_type |-> exercise_type, is_correct |-> is_correct,
     response_time |-> response_time, timestamp |-> timestamp]

\* context.user_data of one chat: the exercise on screen and the word counter
NoContext == [current_word_id |-> NULL, current_exercise_type |-> "",
              exercise_start_time |-> NULL, word_count |-> 0]

NoWord == UserWord(NULL, NULL)

\* db.query(User).filter(User.telegram_id == tg).first()
UserExists(tg) == \E i \in 1..Len(users) : users[i] = tg
UserId(tg) == CHOOSE i \in 1..Len(users) : users[i] = tg

\* The primary key SQLite gives the next inserted row: one past the largest.
NextWordId(W) == IF DOMAIN W = {} THEN 1 ELSE 1 + (CHOOSE m \in DOMAIN W : \A k \in DOMAIN W : k <= m)

(***************************************************************************)
(* SpacedRepetitionManager: the schedule update.                           *)
(***************************************************************************)
autoflush == FALSE

\* What a query sees of the rows added to the session but not yet flushed.
Visible(committed, pending) ==
    IF autoflush THEN committed \o pending ELSE committed

\* The ids of x with the largest timestamp first: ORDER BY timestamp DESC.
Latest(S, idx) == CHOOSE i \in idx : \A j \in idx : S[j].timestamp <= S[i].timestamp

_get_previous_interval(S, user_id, user_word_id) ==
    LET idx == {i \in 1..Len(S) : S[i].user_id = user_id /\ S[i].user_word_id = user_word_id}
    IN IF Cardinality(idx) < 2 THEN 1
       ELSE LET i0 == Latest(S, idx)
                i1 == Latest(S, idx \ {i0})
            IN Max(1, S[i0].timestamp - S[i1].timestamp)

\* A faulty variant: the incorrect branch forgets to reset the count.
sm2_repetition_count_no_reset(repetition_count, is_correct) ==
    repetition_count + 1

\* repetition_count after the answer (lines 132, 151)
sm2_repetition_count(repetition_count, is_correct) ==
    IF is_correct THEN repetition_count + 1 ELSE 0

\* A faulty variant: the incorrect branch is scheduled like a correct answer.
sm2_interval_days_no_relearn(repetition_count, ease_factor, prev_interval, is_correct) ==
    IF repetition_count + 1 = 1 THEN first_interval
    ELSE IF repetition_count + 1 = 2 THEN second_interval
    ELSE Max(1, (prev_interval * ease_factor) \div 10)

\* interval_days after the answer (lines 137-144, 152); int() truncates
sm2_interval_days(repetition_count, ease_factor, prev_interval, is_correct) ==
    IF is_correct
    THEN IF repetition_count + 1 = 1 THEN first_interval
         ELSE IF repetition_count + 1 = 2 THEN second_interval
         ELSE Max(1, (prev_interval * ease_factor) \div 10)
    ELSE relearn_interval

\* A faulty variant: the bonus is added without the cap.
sm2_ease_factor_uncapped(ease_factor, is_correct) ==
    IF is_correct
    THEN ease_factor + ease_factor_bonus
    ELSE Max(min_ease_factor, ease_factor - ease_factor_penalty)

\* ease_factor after the answer (lines 147, 153)
sm2_ease_factor(ease_factor, is_correct) ==
    IF is_correct
    THEN Min(max_ease_factor, ease_factor + ease_factor_bonus)
    ELSE Max(min_ease_factor, ease_factor - ease_factor_penalty)

(***************************************************************************)
(* Python floats: IEEE 754 doubles.  A positive double is m * 2^(e - 52)   *)
(* with a significand m of precision bits, kept as its leading bit d[1]    *)
(* and four digits d[2..5] of 13 bits each; 0.0 has d[1] = 0.  Division    *)
(* and multiplication round to nearest, ties to even.                      *)
(***************************************************************************)
precision == 53

radix == 2^((precision - 1) \div 4)

Places == 1..5

float_zero == [e |-> 0, d |-> <<0, 0, 0, 0, 0>>]

float_one == [e |-> 0, d |-> <<1, 0, 0, 0, 0>>]

is_zero(a) == a.d[1] = 0

\* The next double above a.
next_up(a) ==
    IF \A i \in Places \ {1} : a.d[i] = radix - 1
    THEN [e |-> a.e + 1, d |-> float_one.d]
    ELSE LET j == CHOOSE i \in Places \ {1} :
                     a.d[i] < radix - 1 /\ \A k \in Places : k > i => a.d[k] = radix - 1
         IN [e |-> a.e,
             d |-> [i \in Places |-> IF i < j THEN a.d[i] ELSE IF i = j THEN a.d[i] + 1 ELSE 0]]

\* a < b
less(a, b) ==
    IF is_zero(b) THEN FALSE
    ELSE IF is_zero(a) THEN TRUE
    ELSE \/ a.e < b.e
         \/ /\ a.e = b.e
            /\ \E i \in Places : a.d[i] < b.d[i] /\ \A k \in Places : k < i => a.d[k] = b.d[k]

\* floor(log2(n / d)) for integers n > 0 and d > 0
RECURSIVE exponent(_, _)
exponent(n, d) ==
    IF n >= 2 * d THEN exponent(n, 2 * d) + 1
    ELSE IF n < d THEN exponent(2 * n, d) - 1
    ELSE 0

\* The digits of num / den after the leading one, for 1 <= num / den < 2,
\* and the remainder left: r is the remainder so far.
RECURSIVE quotient(_, _, _)
quotient(r, den, acc) ==
    IF Len(acc) = Cardinality(Places) THEN [d |-> acc, r |-> r]
    ELSE quotient((r * radix) % den, den, Append(acc, (r * radix) \div den))

\* n / d for integers n >= 0 and d > 0
true_divide(n, d) ==
    IF n = 0 THEN float_zero
    ELSE LET e == exponent(n, d)
             num == IF e >= 0 THEN n ELSE n * 2^(0 - e)
             den == IF e >= 0 THEN d * 2^e ELSE d
             q == quotient(num - den, den, <<1>>)
             down == [e |-> e, d |-> q.d]
         IN IF 2 * q.r > den \/ (2 * q.r = den /\ q.d[5] % 2 = 1)
            THEN next_up(down) ELSE down

\* Column k of the long multiplication of the significands: the sum of the
\* products of the digits of weights radix^i and radix^(k - i), from i on.
RECURSIVE digit_column(_, _, _, _)
digit_column(a, b, k, i) ==
    IF i > 4 THEN 0
    ELSE (IF k - i \in 0..4 THEN a.d[5 - i] * b.d[5 - (k - i)] ELSE 0) + digit_column(a, b, k, i + 1)

\* The digits of the product of the significands, from the least significant.
RECURSIVE product(_, _, _, _)
product(a, b, carry, acc) ==
    IF Len(acc) = 9 THEN acc
    ELSE LET sum == carry + digit_column(a, b, Len(acc), 0)
         IN product(a, b, sum \div radix, Append(acc, sum % radix))

\* a * b
multiply(a, b) ==
    IF is_zero(a) \/ is_zero(b) THEN float_zero
    ELSE LET p == product(a, b, 0, << >>)
             low == p[1] # 0 \/ p[2] # 0 \/ p[3] # 0
             half == radix \div 2
         IN IF p[9] = 1
            THEN LET down == [e |-> a.e + b.e, d |-> <<p[9], p[8], p[7], p[6], p[5]>>]
                 IN IF p[4] >= half /\ (p[4] > half \/ low \/ p[5] % 2 = 1)
                    THEN next_up(down) ELSE down
            ELSE LET shifted(i) == (p[i + 1] % 2) * half + p[i] \div 2
                     down == [e |-> a.e + b.e + 1,
                              d |-> <<p[9] \div 2, shifted(8), shifted(7), shifted(6), shifted(5)>>]
                 IN IF p[5] % 2 = 1 /\ (p[4] # 0 \/ low \/ down.d[5] % 2 = 1)
                    THEN next_up(down) ELSE down

\* min(a, b) of Python: b only when it is less than a
float_min(a, b) == IF less(b, a) THEN b ELSE a

\* A faulty variant: the accuracy alone, the frequency factor dropped.
float_mastery_level_accuracy_only(times_seen, times_correct) ==
    LET accuracy == IF times_seen > 0 THEN true_divide(times_correct, times_seen) ELSE float_zero
    IN float_min(float_one, accuracy)

\* mastery_level as lines 189-190 compute it, in doubles
float_mastery_level(times_seen, times_correct) ==
    LET accuracy == IF times_seen > 0 THEN true_divide(times_correct, times_seen) ELSE float_zero
    IN float_min(float_one, multiply(accuracy, true_divide(times_seen, 10)))

\* A faulty variant: the frequency factor alone, the accuracy factor dropped.
heuristic_mastery_by_frequency(times_seen, times_correct) ==
    IF times_seen > 0 THEN Min(MasteryOne, times_seen) ELSE 0

\* mastery_level = min(1.0, accuracy * (times_seen / 10)), in tenths
heuristic_mastery(times_seen, times_correct) ==
    IF times_seen > 0
    THEN Min(MasteryOne, (times_correct * times_seen) \div times_seen)
    ELSE 0

\* A faulty variant: an incorrect answer is not counted in times_seen.
_update_user_word_progress_seen_if_correct(user_word, is_correct, t) ==
    LET seen == user_word.times_seen + (IF is_correct THEN 1 ELSE 0)
        correct == user_word.times_correct + (IF is_correct THEN 1 ELSE 0)
    IN [user_word EXCEPT !.times_seen = seen,
                         !.times_correct = correct,
                         !.last_seen = t,
                         !.mastery_level = heuristic_mastery(seen, correct)]

\* A faulty variant: last_seen is written for a correct answer only.
_update_user_word_progress_seen_when_correct(user_word, is_correct, t) ==
    LET seen == user_word.times_seen + 1
        correct == user_word.times_correct + (IF is_correct THEN 1 ELSE 0)
    IN [user_word EXCEPT !.times_seen = seen,
                         !.times_correct = correct,
                         !.last_seen = IF is_correct THEN t ELSE @,
                         !.mastery_level = heuristic_mastery(seen, correct)]

\* A faulty variant: times_correct is incremented whatever the answer.
_update_user_word_progress_always_correct(user_word, is_correct, t) ==
    LET seen == user_word.times_seen + 1
        correct == user_word.times_correct + 1
    IN [user_word EXCEPT !.times_seen = seen,
                         !.times_correct = correct,
                         !.last_seen = t,
                         !.mastery_level = heuristic_mastery(seen, correct)]

_update_user_word_progress(user_word, is_correct, t) ==
    LET seen == user_word.times_seen + 1
        correct == user_word.times_correct + (IF is_correct THEN 1 ELSE 0)
    IN [user_word EXCEPT !.times_seen = seen,
                         !.times_correct = correct,
                         !.last_seen = t,
                         !.mastery_level = heuristic_mastery(seen, correct)]

\* A faulty variant: only a correct answer writes next_review_date.
scheduled_word_correct_only(user_word, prev_interval, is_correct, t) ==
    LET interval_days == sm2_interval_days(user_word.repetition_count, user_word.ease_factor,
                                           prev_interval, is_correct)
        row == [user_word EXCEPT
                  !.next_review_date = IF is_correct THEN t + interval_days ELSE @,
                  !.repetition_count = sm2_repetition_count(user_word.repetition_count, is_correct),
                  !.ease_factor = sm2_ease_factor(user_word.ease_factor, is_correct)]
    IN _update_user_word_progress(row, is_correct, t)

\* The row update_word_schedule writes for user_word (lines 131-162).
scheduled_word(user_word, prev_interval, is_correct, t) ==
    LET interval_days == sm2_interval_days(user_word.repetition_count, user_word.ease_factor,
                                           prev_interval, is_correct)
        row == [user_word EXCEPT
                  !.next_review_date = t + interval_days,
                  !.repetition_count = sm2_repetition_count(user_word.repetition_count, is_correct),
                  !.ease_factor = sm2_ease_factor(user_word.ease_factor, is_correct)]
    IN _update_user_word_progress(row, is_correct, t)

\* update_word_schedule(db, user_telegram_id, user_word_id, is_correct): the
\* user_words table after the call; S is what its queries see of the sessions.
update_word_schedule(W, S, tg, user_word_id, is_correct, t) ==
    IF ~UserExists(tg) THEN W
    ELSE IF user_word_id \notin DOMAIN W THEN W
    ELSE [W EXCEPT ![user_word_id] =
            scheduled_word(W[user_word_id],
                           _get_previous_interval(S, UserId(tg), user_word_id),
                           is_correct, t)]

\* Whether the call changes a row (both lookups succeed).
Updates(W, tg, user_word_id) == UserExists(tg) /\ user_word_id \in DOMAIN W

\* A faulty variant: an untrained predictor predicts all the same.
predict_mastery_untrained(data_service, W, trained, user_word_id) ==
    IF data_service # "MLDataService" THEN {Raised}
    ELSE IF user_word_id \notin DOMAIN W THEN {0}
    ELSE IF W[user_word_id].times_seen = 0 THEN {0}
    ELSE 0..MasteryOne

(***************************************************************************)
(* LearningProgressPredictor.predict_mastery, as the scheduler calls it.   *)
(* data_service is the object handed in as first argument: an              *)
(* "MLDataService", or the SQLAlchemy "Session" the scheduler passes on,   *)
(* which has no get_word_prediction_data (AttributeError).  The result is  *)
(* the set of values the call can return, Raised for the exception.        *)
(***************************************************************************)
predict_mastery(data_service, W, trained, user_word_id) ==
    IF data_service # "MLDataService" THEN {Raised}
    ELSE IF user_word_id \notin DOMAIN W THEN {0}
    ELSE IF W[user_word_id].times_seen = 0 THEN {0}
    ELSE IF ~trained THEN {0}
    ELSE 0..MasteryOne

\* The object get_next_word_for_review hands to predict_mastery: its db.
scheduler_data_service == "Session"

(***************************************************************************)
(* SpacedRepetitionManager: the selection.  Every operator returns the set *)
(* of rows the query or call can return first (rows with equal sort keys   *)
(* come in an order SQL leaves open), NULL for None, Raised for an         *)
(* exception.                                                              *)
(***************************************************************************)
\* A faulty variant: the queries do not filter on the user.
ActiveWords_any_user(W, user_id) == {w \in DOMAIN W : W[w].is_active}

ActiveWords(W, user_id) == {w \in DOMAIN W : W[w].user_id = user_id /\ W[w].is_active}

IsDue(row, t) == row.next_review_date = NULL \/ row.next_review_date <= t

\* The rows of the due query, as a set.
_get_due_words(W, user_id, t) == {w \in ActiveWords(W, user_id) : IsDue(W[w], t)}

\* due_words[0]: ORDER BY next_review_date NULLS FIRST
first_due_words(W, due) ==
    {w \in due : \A v \in due :
        \/ W[w].next_review_date = NULL
        \/ (W[v].next_review_date # NULL /\ W[w].next_review_date <= W[v].next_review_date)}

\* The predictions one pass over the rows ws can collect.
Predictions(W, trained, ws) ==
    {f \in [ws -> 0..MasteryOne] :
        \A w \in ws : f[w] \in predict_mastery(scheduler_data_service, W, trained, w)}

LowestMastery(f, ws) == {w \in ws : \A v \in ws : f[w] <= f[v]}

\* word_masteries.sort(key=mastery)[0]: the sort is stable, so among the rows
\* of lowest predicted mastery the first of due_words is returned
_prioritize_by_mastery(W, trained, due) ==
    IF \E w \in due : Raised \in predict_mastery(scheduler_data_service, W, trained, w)
    THEN {Raised}
    ELSE UNION {first_due_words(W, LowestMastery(f, due)) : f \in Predictions(W, trained, due)}

_get_new_word(W, user_id) ==
    LET new == {w \in ActiveWords(W, user_id) : W[w].times_seen = 0}
    IN IF new = {} THEN {NULL} ELSE {w \in new : \A v \in new : w <= v}

_get_lowest_mastery_word(W, trained, user_id) ==
    LET candidate_words == {w \in ActiveWords(W, user_id) : W[w].times_seen > 0}
    IN IF candidate_words = {} THEN {NULL}
       ELSE IF \E w \in candidate_words :
                    Raised \in predict_mastery(scheduler_data_service, W, trained, w)
       THEN {Raised}
       ELSE UNION {LowestMastery(f, candidate_words) :
                       f \in Predictions(W, trained, candidate_words)}

_get_least_recent_word(W, user_id) ==
    LET seen == {w \in ActiveWords(W, user_id) : W[w].times_seen > 0}
    IN IF seen = {} THEN {NULL}
       ELSE {w \in seen : \A v \in seen : W[w].last_seen <= W[v].last_seen}

\* get_next_word_for_review(db, user_telegram_id, progress_predictor);
\* with_predictor is whether a predictor object is handed in.
get_next_word_for_review(W, trained, tg, with_predictor, t) ==
    IF ~UserExists(tg) THEN {NULL}
    ELSE LET user_id == UserId(tg)
             due_words == _get_due_words(W, user_id, t)
         IN IF due_words # {}
            THEN IF with_predictor /\ Cardinality(due_words) > 1
                 THEN _prioritize_by_mastery(W, trained, due_words)
                 ELSE first_due_words(W, due_words)
            ELSE IF _get_new_word(W, user_id) # {NULL}
            THEN _get_new_word(W, user_id)
            ELSE IF with_predictor
            THEN _get_lowest_mastery_word(W, trained, user_id)
            ELSE _get_least_recent_word(W, user_id)

Observed(op, tg, w, correct, res, pre) ==
    [op |-> op, tg |-> tg, w |-> w, correct |-> correct, res |-> res, pre |-> pre]

NoCall == Observed("none", NULL, NULL, FALSE, NULL, NoWord)

(***************************************************************************)
(* Observers: the call that wrote a schedule in the last step (NoCall when *)
(* the last step was another one; its res is Raised when the handler was   *)
(* left through an exception and Retrained when it called train_model and  *)
(* apply_predictions_to_user_words), the correctness of the last schedule  *)
(* update of each row, and, for each row, the intervals of its             *)
(* answers while all of them were correct, given on the scheduled review   *)
(* date and handled by the answer flow (unbroken is FALSE once one was     *)
(* not).                                                                   *)
(***************************************************************************)
NoStreak == [unbroken |-> TRUE, intervals |-> << >>]

StreakAfter(st, row, is_correct, flow, t, new_row) ==
    IF ~st.unbroken THEN st
    ELSE IF is_correct /\ flow /\ (row.next_review_date = NULL \/ row.next_review_date = t)
    THEN [st EXCEPT !.intervals = Append(@, new_row.next_review_date - t)]
    ELSE [unbroken |-> FALSE, intervals |-> << >>]

\* The schedule updates applied to a row so far, how many were correct, and
\* how many were committed after another update of the row had been
\* committed since they read it.
NoUpdates == [updates |-> 0, correct |-> 0, interleaved |-> 0]

AppliedAfter(a, is_correct, sequential) ==
    [updates |-> a.updates + 1,
     correct |-> a.correct + (IF is_correct THEN 1 ELSE 0),
     interleaved |-> a.interleaved + (IF sequential THEN 0 ELSE 1)]

Track(W2, tg, w, is_correct, flow) ==
    IF Updates(words, tg, w)
    THEN /\ last_answer' = [k \in DOMAIN last_answer \cup {w} |-> IF k = w THEN is_correct ELSE last_answer[k]]
         /\ streak' = [streak EXCEPT ![w] = StreakAfter(@, words[w], is_correct, flow, now, W2[w])]
         /\ applied' = [applied EXCEPT ![w] = AppliedAfter(@, is_correct, TRUE)]
    ELSE UNCHANGED <<last_answer, streak, applied>>

(***************************************************************************)
(* Vocabulary: /start and /add_word.                                       *)
(***************************************************************************)
\* add_default_vocabulary_for_user: one row per default word the user lacks
add_default_vocabulary_for_user(W, user_id) ==
    LET missing == {x \in DefaultTexts : ~\E w \in DOMAIN W : W[w].user_id = user_id /\ W[w].dutch_word = x}
        base == NextWordId(W) - 1
        rank(x) == Cardinality({y \in missing : y <= x})
    IN [k \in DOMAIN W \cup {base + rank(x) : x \in missing} |->
          IF k \in DOMAIN W THEN W[k]
          ELSE UserWord(user_id, CHOOSE x \in missing : base + rank(x) = k)]

\* /start: a new user is stored and given the default vocabulary; for a known
\* user nothing is written
start(tg) ==
    IF UserExists(tg)
    THEN UNCHANGED vars
    ELSE /\ users' = Append(users, tg)
         /\ words' = add_default_vocabulary_for_user(words, Len(users) + 1)
         /\ streak' = [k \in DOMAIN words' |-> IF k \in DOMAIN words THEN streak[k] ELSE NoStreak]
         /\ applied' = [k \in DOMAIN words' |-> IF k \in DOMAIN words THEN applied[k] ELSE NoUpdates]
         /\ last' = NoCall
         /\ UNCHANGED <<sessions, ctx, is_trained, now, last_answer, bandit_vars, exercise,
                   checked, cycles, retrained, progress>>

add_word(tg, dutch_word) ==
    /\ IF ~UserExists(tg) THEN UNCHANGED <<words, streak, applied>>
       ELSE LET existing == {w \in DOMAIN words : words[w].user_id = UserId(tg) /\ words[w].dutch_word = dutch_word}
            IN IF existing # {}
               THEN /\ words' = [k \in DOMAIN words |->
                                   IF k \in existing /\ \A j \in existing : k <= j
                                   THEN [words[k] EXCEPT !.is_active = TRUE] ELSE words[k]]
                    /\ UNCHANGED <<streak, applied>>
               ELSE LET id == NextWordId(words)
                    IN /\ words' = [k \in DOMAIN words \cup {id} |->
                                      IF k = id THEN UserWord(UserId(tg), dutch_word) ELSE words[k]]
                       /\ streak' = [k \in DOMAIN words \cup {id} |-> IF k = id THEN NoStreak ELSE streak[k]]
                       /\ applied' = [k \in DOMAIN words \cup {id} |-> IF k = id THEN NoUpdates ELSE applied[k]]
    /\ last' = NoCall
    /\ UNCHANGED <<users, sessions, ctx, is_trained, now, last_answer, bandit_vars, exercise,
                   checked, cycles, retrained, progress>>

(***************************************************************************)
(* The scheduler called directly: recordOutcome.                           *)
(***************************************************************************)
record_outcome(tg, user_word_id, is_correct) ==
    IF ~Updates(words, tg, user_word_id)
    THEN UNCHANGED vars
    ELSE /\ words' = update_word_schedule(words, sessions, tg, user_word_id, is_correct, now)
         /\ Track(words', tg, user_word_id, is_correct, FALSE)
         /\ last' = Observed("update_word_schedule", tg, user_word_id, is_correct, NULL, words[user_word_id])
         /\ UNCHANGED <<users, sessions, ctx, is_trained, now, bandit_vars, exercise,
                   checked, cycles, retrained, progress>>

(***************************************************************************)
(* LearningProgressPredictor: train_model and apply_predictions, called    *)
(* with the user id the caller hands in.                                   *)
(***************************************************************************)
\* get_word_training_data(user_id): the seen rows whose user_id column is user_id
training_rows(W, user_id) == {w \in DOMAIN W : W[w].user_id = user_id /\ W[w].times_seen > 0}

\* The targets of the training rows: what the scaler and the classifier are
\* fitted on.
training_targets(W, user_id) ==
    [w \in training_rows(W, user_id) |->
        IF W[w].mastery_level >= mastered_threshold THEN 1 ELSE 0]

\* A faulty variant: the number of rows is not checked.
train_model_any_rows(W, user_id) ==
    LET rows == training_rows(W, user_id)
        target == training_targets(W, user_id)
    IN \E v, w \in rows : target[v] # target[w]

\* train_model returns True (and marks the predictor trained)
train_model(W, user_id) ==
    LET rows == training_rows(W, user_id)
        target == training_targets(W, user_id)
    IN /\ Cardinality(rows) >= min_training_rows
       /\ \E v, w \in rows : target[v] # target[w]

\* A faulty variant: the predictions are applied by an untrained predictor too.
apply_predictions_untrained(W, trained, user_id) ==
    LET rows == training_rows(W, user_id)
    IN {[k \in DOMAIN W |-> IF k \in rows THEN [W[k] EXCEPT !.mastery_level = f[k]] ELSE W[k]] :
           f \in {g \in [rows -> 0..MasteryOne] :
                    \A w \in rows : g[w] \in predict_mastery("MLDataService", W, trained, w)}}

\* The user_words tables apply_predictions_to_user_words can leave.
apply_predictions_to_user_words(W, trained, user_id) ==
    IF ~trained THEN {W}
    ELSE LET rows == training_rows(W, user_id)
         IN {[k \in DOMAIN W |-> IF k \in rows THEN [W[k] EXCEPT !.mastery_level = f[k]] ELSE W[k]] :
                f \in {g \in [rows -> 0..MasteryOne] :
                         \A w \in rows : g[w] \in predict_mastery("MLDataService", W, trained, w)}}

(***************************************************************************)
(* BanditModelRepository and ContextualBandits.  A stored vector is JSON   *)
(* text, here the sequence of its tokens; numbers are one digit long.      *)
(* bandit_models maps <<user_id, exercise_type>> to the row of that key.   *)
(***************************************************************************)
exercise_type_list ==
    <<"multiple_choice_en_to_nl", "multiple_choice_nl_to_en",
      "translation_en_to_nl", "translation_nl_to_en">>

weighted_types ==
    <<"multiple_choice_en_to_nl", "multiple_choice_en_to_nl", "multiple_choice_en_to_nl",
      "multiple_choice_nl_to_en", "multiple_choice_nl_to_en", "multiple_choice_nl_to_en",
      "translation_en_to_nl", "translation_nl_to_en">>

Digits == <<"0", "1", "2", "3", "4", "5", "6", "7", "8", "9">>

\* json.dumps of a list of numbers
json_dumps(v) == <<"[">> \o [i \in 1..Len(v) |-> Digits[v[i] + 1]] \o <<"]">>

\* json.loads succeeds on text
json_valid(text) ==
    /\ Len(text) >= 2
    /\ text[1] = "[" /\ text[Len(text)] = "]"
    /\ \A i \in 2..(Len(text) - 1) : \E d \in 1..Len(Digits) : Digits[d] = text[i]

\* json.loads of valid text
json_loads(text) ==
    [i \in 1..(Len(text) - 2) |-> (CHOOSE d \in 1..Len(Digits) : Digits[d] = text[i + 1]) - 1]

\* The parameters of a fitted arm, before they are serialized.
ArmParams(coefficients, intercept, scaler_mean, scaler_scale) ==
    [coefficients |-> coefficients, intercept |-> intercept,
     scaler_mean |-> scaler_mean, scaler_scale |-> scaler_scale]

\* save_data of _train_and_save_model (lines 160-167), with the flag it is given
save_data(params, is_trained_flag) ==
    [coefficients |-> json_dumps(params.coefficients),
     intercept |-> params.intercept,
     scaler_mean |-> json_dumps(params.scaler_mean),
     scaler_scale |-> json_dumps(params.scaler_scale),
     is_trained |-> is_trained_flag]

\* save_model: the row of the key is created or overwritten
save_model(B, user_id, exercise_type, model_data) ==
    [k \in DOMAIN B \cup {<<user_id, exercise_type>>} |->
        IF k = <<user_id, exercise_type>>
        THEN [model_coefficients |-> model_data.coefficients,
              model_intercept |-> model_data.intercept,
              scaler_mean |-> model_data.scaler_mean,
              scaler_scale |-> model_data.scaler_scale,
              is_trained |-> model_data.is_trained]
        ELSE B[k]]

\* What load_model_data returns when it returns None.
NoModelData ==
    [found |-> FALSE, coefficients |-> << >>, intercept |-> 0,
     scaler_mean |-> << >>, scaler_scale |-> << >>, is_trained |-> FALSE]

\* load_model_data: None for a missing row, an untrained row, or a row whose
\* text json.loads rejects (the exception is caught)
load_model_data(B, user_id, exercise_type) ==
    LET key == <<user_id, exercise_type>>
    IN IF key \notin DOMAIN B THEN NoModelData
       ELSE IF ~B[key].is_trained THEN NoModelData
       ELSE IF ~(/\ json_valid(B[key].model_coefficients)
                 /\ json_valid(B[key].scaler_mean)
                 /\ json_valid(B[key].scaler_scale))
       THEN NoModelData
       ELSE [found |-> TRUE,
             coefficients |-> json_loads(B[key].model_coefficients),
             intercept |-> B[key].model_intercept,
             scaler_mean |-> json_loads(B[key].scaler_mean),
             scaler_scale |-> json_loads(B[key].scaler_scale),
             is_trained |-> B[key].is_trained]

\* get_word_sessions(user_id, user_word_id): the stored sessions of the word
\* whose user_id column is user_id
get_word_sessions(S, user_id, user_word_id) ==
    {i \in 1..Len(S) : S[i].user_id = user_id /\ S[i].user_word_id = user_word_id}

\* total_sessions of the context (extract_session_features of word_sessions)
total_sessions(S, user_id, user_word_id) == Cardinality(get_word_sessions(S, user_id, user_word_id))

\* The user_id the handlers hand to select_exercise, update_reward and
\* train_model: query.from_user.id, the telegram id
ml_user_id(tg) == tg

\* The vectors get_context_features can return for a stored word: their
\* components depend on the text of the word and on the hour of the day.
Contexts ==
    {[i \in 1..context_dim |-> 0],
     [i \in 1..context_dim |-> IF i = 1 THEN 3 ELSE 1],
     [i \in 1..context_dim |-> IF i = context_dim THEN 2 ELSE 0]}

get_context_features(W, user_word_id) ==
    IF user_word_id \notin DOMAIN W THEN {[i \in 1..context_dim |-> 0]} ELSE Contexts

\* _predict_reward: raises (ok = FALSE) when a stored vector has not the
\* dimension of the context.  The probability is increasing in the logit
\* sum(coef[i] * (context[i] - mean[i]) / scale[i]) + intercept, returned as
\* the exact fraction num / den with den the product of the scales.
_predict_reward(context, model_data) ==
    LET n == Len(context)
        RECURSIVE Prod(_)
        Prod(i) == IF i = 0 THEN 1 ELSE model_data.scaler_scale[i] * Prod(i - 1)
        den == Prod(n)
        RECURSIVE Dot(_)
        Dot(i) == IF i = 0 THEN 0
                  ELSE model_data.coefficients[i]
                         * (context[i] - model_data.scaler_mean[i])
                         * (den \div model_data.scaler_scale[i])
                       + Dot(i - 1)
    IN IF \/ Len(model_data.coefficients) # n
          \/ Len(model_data.scaler_mean) # n
          \/ Len(model_data.scaler_scale) # n
       THEN [ok |-> FALSE, num |-> 0, den |-> 1]
       ELSE [ok |-> TRUE, num |-> Dot(n) + model_data.intercept * den, den |-> den]

\* predicted_reward > best_reward
reward_greater(a, b) == a.num * b.den > b.num * a.den

\* The arms the loop of select_exercise compares: trained, loaded, predicting.
predicting_arms(B, context, user_id) ==
    {i \in 1..Len(exercise_type_list) :
        LET model_data == load_model_data(B, user_id, exercise_type_list[i])
        IN model_data.found /\ model_data.is_trained
           /\ _predict_reward(context, model_data).ok}

\* A faulty variant: the loop keeps the lowest predicted reward.
best_exercise_lowest(B, context, user_id) ==
    LET arms == predicting_arms(B, context, user_id)
        reward(i) == _predict_reward(context, load_model_data(B, user_id, exercise_type_list[i]))
    IN IF arms = {} THEN ""
       ELSE exercise_type_list[CHOOSE i \in arms :
                \A j \in arms : ~reward_greater(reward(i), reward(j))]

\* best_exercise after the loop (lines 58-71): the first arm in the order of
\* exercise_types that no other arm beats; "" for None
best_exercise(B, context, user_id) ==
    LET arms == predicting_arms(B, context, user_id)
        reward(i) == _predict_reward(context, load_model_data(B, user_id, exercise_type_list[i]))
    IN IF arms = {} THEN ""
       ELSE exercise_type_list[CHOOSE i \in arms :
                /\ \A j \in arms : ~reward_greater(reward(j), reward(i))
                /\ \A j \in arms : j < i => reward_greater(reward(i), reward(j))]

\* A faulty variant: a failing arm aborts the selection.
select_exercise_aborting(B, context, user_id, explores) ==
    IF explores THEN exercise_types
    ELSE IF \E i \in 1..Len(exercise_type_list) :
              LET model_data == load_model_data(B, user_id, exercise_type_list[i])
              IN model_data.found /\ ~_predict_reward(context, model_data).ok
    THEN {"Raised"}
    ELSE IF best_exercise(B, context, user_id) = ""
    THEN {weighted_types[i] : i \in 1..Len(weighted_types)}
    ELSE {best_exercise(B, context, user_id)}

\* A faulty variant: without a comparable arm None is returned.
select_exercise_no_fallback(B, context, user_id, explores) ==
    IF explores THEN exercise_types
    ELSE {best_exercise(B, context, user_id)}

\* select_exercise: the formats it can return; explores is the outcome of
\* np.random.random() < self.epsilon
select_exercise(B, context, user_id, explores) ==
    IF explores THEN exercise_types
    ELSE IF best_exercise(B, context, user_id) = ""
    THEN {weighted_types[i] : i \in 1..Len(weighted_types)}
    ELSE {best_exercise(B, context, user_id)}

\* A faulty variant: the time bonus has the weight of the base reward.
reward_label_heavy_bonus(is_correct, response_time) ==
    IF (IF is_correct THEN 100 ELSE 0) + 5 * Max(0, 20 - response_time) > 50 THEN 1 ELSE 0

\* reward_label (lines 118-122), in hundredths: 0.2 * (20 - t) / 20 is (20 - t) / 100
reward_label(is_correct, response_time) ==
    IF (IF is_correct THEN 100 ELSE 0) + Max(0, 20 - response_time) > 50 THEN 1 ELSE 0

\* model_data["rewards"] after the append of update_reward (lines 125-136):
\* a fresh list when nothing is loaded, and model_data.get("rewards", [])
\* otherwise, where the loaded dictionary has no such key
reward_buffer(B, user_id, exercise_type, label) ==
    LET model_data == load_model_data(B, user_id, exercise_type)
        rewards == IF ~model_data.found THEN << >> ELSE << >>
    IN Append(rewards, label)

\* Column i of the matrix X
column(X, i) == [r \in 1..Len(X) |-> X[r][i]]

total(v) == LET RECURSIVE Upto(_)
              Upto(k) == IF k = 0 THEN 0 ELSE v[k] + Upto(k - 1)
          IN Upto(Len(v))

\* StandardScaler.fit and LogisticRegression(random_state=42).fit (lines
\* 152-157): a function of the buffer.  The scaler has the mean of each
\* column (in whole units) and a scale that is 1 for a constant column; for
\* the solver's numbers stand the positive rows above the mean, per column,
\* and the number of positive labels.
fit(X, y) ==
    LET n == Len(X)
        mean(i) == total(column(X, i)) \div n
        constant(i) == \A r \in 1..n : X[r][i] = X[1][i]
    IN ArmParams([i \in 1..context_dim |->
                     Cardinality({r \in 1..n : y[r] = 1 /\ X[r][i] > mean(i)})],
                 total(y),
                 [i \in 1..context_dim |-> mean(i)],
                 [i \in 1..context_dim |-> IF constant(i) THEN 1 ELSE 2])

\* A faulty variant: each fit starts from the stored intercept and adds to it.
_train_and_save_model_warm_start(B, user_id, exercise_type, model_data) ==
    LET p == fit(model_data.contexts, model_data.rewards)
        key == <<user_id, exercise_type>>
        warm == IF key \in DOMAIN B THEN B[key].model_intercept ELSE 0
    IN IF Len(model_data.contexts) < min_fit_rows THEN {B}
       ELSE IF Cardinality({model_data.rewards[i] : i \in 1..Len(model_data.rewards)}) < 2 THEN {B}
       ELSE {save_model(B, user_id, exercise_type,
                        save_data([p EXCEPT !.intercept = (warm + p.intercept) % 10], TRUE))}

\* _train_and_save_model: the tables it can leave.  LogisticRegression.fit
\* raises on a single class of labels, and the exception is caught.
_train_and_save_model(B, user_id, exercise_type, model_data) ==
    IF Len(model_data.contexts) < min_fit_rows THEN {B}
    ELSE IF Cardinality({model_data.rewards[i] : i \in 1..Len(model_data.rewards)}) < 2 THEN {B}
    ELSE {save_model(B, user_id, exercise_type,
                     save_data(fit(model_data.contexts, model_data.rewards), TRUE))}

\* update_reward: the tables it can leave; the context appended to the
\* buffer is one of those get_context_features returns
update_reward(B, user_id, exercise_type, is_correct, response_time) ==
    LET rewards == reward_buffer(B, user_id, exercise_type, reward_label(is_correct, response_time))
    IN IF Len(rewards) >= retrain_size
       THEN UNION {_train_and_save_model(B, user_id, exercise_type,
                                         [contexts |-> [r \in 1..Len(rewards) |-> context],
                                          rewards |-> rewards]) : context \in Contexts}
       ELSE {B}

\* Observer of update_reward, per key: the number of calls, the length of
\* the buffer at the end of the last call, the labels computed so far and
\* the arguments and the label of the last call.
LogReward(log, B, user_id, exercise_type, is_correct, response_time) ==
    LET key == <<user_id, exercise_type>>
        label == reward_label(is_correct, response_time)
        seen == key \in DOMAIN log
    IN [k \in DOMAIN log \cup {key} |->
          IF k = key
          THEN [n |-> (IF seen THEN log[key].n ELSE 0) + 1,
                buffer |-> Len(reward_buffer(B, user_id, exercise_type, label)),
                labels |-> (IF seen THEN log[key].labels ELSE {}) \cup {label},
                is_correct |-> is_correct,
                response_time |-> response_time,
                label |-> label]
          ELSE log[k]]

\* The last direct call of _train_and_save_model: its arguments, how many
\* calls in a row had these arguments, and the table the first of them left.
NoRetrain == [user_id |-> NULL, exercise_type |-> "", model_data |-> [contexts |-> << >>, rewards |-> << >>],
              n |-> 0, first |-> << >>]

\* The progress columns of one row under a sequence of answers, with the
\* double that line 190 writes to mastery_level and the one it replaced.
NoProgress == [user_word |-> NoWord, mastery_level |-> float_zero,
               pre |-> float_zero, is_correct |-> FALSE]

update_progress(is_correct) ==
    LET user_word == _update_user_word_progress(progress.user_word, is_correct, now)
    IN /\ progress' = [user_word |-> user_word,
                       mastery_level |-> float_mastery_level(user_word.times_seen,
                                                             user_word.times_correct),
                       pre |-> progress.mastery_level,
                       is_correct |-> is_correct]
       /\ UNCHANGED <<users, words, sessions, ctx, is_trained, fitted, bandit_models, now,
                      last, last_answer, streak, applied, reward_log, last_pick, last_save, exercise,
                      checked, cycles, retrained>>

NoPick == [user_id |-> NULL, context |-> << >>, explores |-> FALSE, result |-> ""]

NoSave == [user_id |-> NULL, exercise_type |-> "", params |-> ArmParams(<< >>, 0, << >>, << >>),
           is_trained |-> FALSE, damage |-> "none"]

(***************************************************************************)
(* ExerciseManager: the wrong options of a prompt, as the rows their texts *)
(* are taken from.                                                         *)
(***************************************************************************)
\* query.limit(50).all(): the rows a query returns, at most query_limit of them
limited(rows) ==
    IF Cardinality(rows) <= query_limit THEN {rows}
    ELSE {some \in SUBSET rows : Cardinality(some) = query_limit}

\* random.sample(wrong_words, min(3, len(wrong_words)))
sample(wrong_words) ==
    {some \in SUBSET wrong_words : Cardinality(some) = Min(num_wrong_options, Cardinality(wrong_words))}

\* A faulty variant: without the fallback to the rows of all learners.
_generate_multiple_choice_own(W, correct_word) ==
    LET own == {w \in DOMAIN W : /\ W[w].user_id = W[correct_word].user_id
                                  /\ w # correct_word
                                  /\ W[w].is_active}
    IN UNION {sample(wrong_words) : wrong_words \in limited(own)}

\* _generate_multiple_choice: the sets of rows wrong_options can be
_generate_multiple_choice(W, correct_word) ==
    LET own == {w \in DOMAIN W : /\ W[w].user_id = W[correct_word].user_id
                                  /\ w # correct_word
                                  /\ W[w].is_active}
        global == {w \in DOMAIN W : w # correct_word /\ W[w].is_active}
    IN UNION {IF Cardinality(wrong_words) < num_wrong_options
              THEN UNION {sample(fallback) : fallback \in limited(global)}
              ELSE sample(wrong_words) : wrong_words \in limited(own)}

\* generate_exercise: a translation prompt has no options
generate_exercise(W, user_word_id, exercise_type) ==
    IF exercise_type \in {"translation_en_to_nl", "translation_nl_to_en"}
    THEN {{}}
    ELSE _generate_multiple_choice(W, user_word_id)

\* The exercise generated last.
NoExercise == [user_word_id |-> NULL, exercise_type |-> "", wrong_options |-> {}]

(***************************************************************************)
(* ExerciseManager.check_answer.  A text is a sequence of characters; the  *)
(* operators below are the str methods the code calls.                     *)
(***************************************************************************)
MaxAnswerLen == 5

\* The characters the answers are typed from.
Alphabet == {"d", "e", " ", "k", "D"}
lowercase == ("D" :> "d") @@ ("K" :> "k") @@ ("H" :> "h")

\* str.lower()
lower(text) == [i \in 1..Len(text) |-> IF text[i] \in DOMAIN lowercase THEN lowercase[text[i]] ELSE text[i]]

\* str.strip(): the text without the spaces at its two ends
RECURSIVE lstrip(_)
lstrip(text) == IF text # << >> /\ Head(text) = " " THEN lstrip(Tail(text)) ELSE text

RECURSIVE rstrip(_)
rstrip(text) ==
    IF text # << >> /\ text[Len(text)] = " " THEN rstrip(SubSeq(text, 1, Len(text) - 1)) ELSE text

strip(text) == rstrip(lstrip(text))

\* str.startswith(prefix)
startswith(text, prefix) ==
    Len(text) >= Len(prefix) /\ SubSeq(text, 1, Len(prefix)) = prefix

\* str.replace(old, ''): every occurrence of old, from left to right
RECURSIVE replace(_, _)
replace(text, old) ==
    IF text = << >> THEN << >>
    ELSE IF startswith(text, old) THEN replace(SubSeq(text, Len(old) + 1, Len(text)), old)
    ELSE <<Head(text)>> \o replace(Tail(text), old)

\* part in text
contains(text, part) ==
    \E i \in 0..(Len(text) - Len(part)) : SubSeq(text, i + 1, i + Len(part)) = part

\* 'de ' and 'het '
de_article == <<"d", "e", " ">>
het_article == <<"h", "e", "t", " ">>

\* check_answer(word, exercise_type, user_answer)
check_answer(word, exercise_type, user_answer) ==
    LET correct_answer == IF exercise_type \in {"multiple_choice_en_to_nl", "translation_en_to_nl"}
                          THEN word.dutch_word
                          ELSE word.english_translation
        user_clean == lower(strip(user_answer))
        correct_clean == lower(strip(correct_answer))
        user_no_article == replace(replace(user_clean, de_article), het_article)
        correct_no_article == replace(replace(correct_clean, de_article), het_article)
    IN IF exercise_type \in {"multiple_choice_en_to_nl", "multiple_choice_nl_to_en"}
       THEN user_clean = correct_clean
       ELSE IF user_clean = correct_clean THEN TRUE
       ELSE IF exercise_type = "translation_en_to_nl" /\ user_no_article = correct_no_article
       THEN TRUE
       ELSE Len(user_clean) > 3
            /\ (contains(correct_clean, user_clean) \/ contains(user_clean, correct_clean))

\* The answer checked last.
NoCheck == [word |-> [dutch_word |-> << >>, english_translation |-> << >>],
            exercise_type |-> "", user_answer |-> << >>, is_correct |-> FALSE]

(***************************************************************************)
(* update_word_schedule run by two callers at once, each in its own        *)
(* Session: the rows a Session has read and the attributes it has set stay *)
(* in that Session until its commit.  A cycle is idle, then modified (the  *)
(* reads and the attribute writes of lines 122-162 are done), then         *)
(* committed; read_after and committed_after are the cycles that had       *)
(* committed when this one read and when it committed.                     *)
(***************************************************************************)
Cycles == 1..2

IdleCycle == [pc |-> "idle", user_word_id |-> NULL, is_correct |-> FALSE,
              loaded |-> NoWord, user_word |-> NoWord,
              read_after |-> {}, committed_after |-> {}, updates_read |-> 0]

NoCycles == [k \in Cycles |-> IdleCycle]

Committed == {j \in Cycles : cycles[j].pc = "committed"}

\* The columns in the SET clause of the UPDATE the commit emits: those whose
\* attribute differs from the loaded value; the two datetime columns are set
\* from utcnow() and always differ.
dirty(loaded, user_word) ==
    {f \in DOMAIN user_word : user_word[f] # loaded[f]} \cup {"next_review_date", "last_seen"}

\* A faulty variant: the UPDATE sets every column of the row.
flushed_every_column(row, loaded, user_word) == user_word

\* The stored row after the UPDATE of a commit.
flushed(row, loaded, user_word) ==
    [f \in DOMAIN row |-> IF f \in dirty(loaded, user_word) THEN user_word[f] ELSE row[f]]

\* update_word_schedule up to the commit (lines 122-162)
read_modify(k, tg, user_word_id, is_correct) ==
    /\ cycles[k].pc = "idle"
    /\ Updates(words, tg, user_word_id)
    /\ cycles' = [cycles EXCEPT ![k] =
                    [pc |-> "modified", user_word_id |-> user_word_id, is_correct |-> is_correct,
                     loaded |-> words[user_word_id],
                     user_word |-> scheduled_word(words[user_word_id],
                                                  _get_previous_interval(sessions, UserId(tg), user_word_id),
                                                  is_correct, now),
                     read_after |-> Committed, committed_after |-> {},
                     updates_read |-> applied[user_word_id].updates]]
    /\ UNCHANGED <<users, words, sessions, ctx, is_trained, fitted, bandit_models, now,
                   last, last_answer, streak, applied, reward_log, last_pick, last_save, exercise, checked, retrained, progress>>

\* db.commit() (line 164)
commit(k) ==
    /\ cycles[k].pc = "modified"
    /\ words' = [words EXCEPT ![cycles[k].user_word_id] =
                    flushed(@, cycles[k].loaded, cycles[k].user_word)]
    /\ cycles' = [cycles EXCEPT ![k].pc = "committed", ![k].committed_after = Committed]
    /\ applied' = [applied EXCEPT ![cycles[k].user_word_id] =
                      AppliedAfter(@, cycles[k].is_correct, @.updates = cycles[k].updates_read)]
    /\ UNCHANGED <<users, sessions, ctx, is_trained, fitted, bandit_models, now,
                   last, last_answer, streak, reward_log, last_pick, last_save, exercise, checked, retrained, progress>>

(***************************************************************************)
(* The bot handlers.                                                       *)
(***************************************************************************)
\* "Next Word"
get_next_word(tg, exercise_type) ==
    \E next_word \in get_next_word_for_review(words, is_trained, tg, TRUE, now) :
        /\ \/ next_word \in {NULL, Raised}
           \/ \E context \in get_context_features(words, next_word), explores \in BOOLEAN :
                 exercise_type \in select_exercise(bandit_models, context, tg, explores)
        /\ IF next_word \in {NULL, Raised}
           THEN UNCHANGED ctx
           ELSE ctx' = [ctx EXCEPT ![tg] =
                          [current_word_id |-> next_word,
                           current_exercise_type |-> exercise_type,
                           exercise_start_time |-> now,
                           word_count |-> @.word_count + 1]]
        /\ IF next_word \in {NULL, Raised}
           THEN UNCHANGED exercise
           ELSE \E wrong_options \in generate_exercise(words, next_word, exercise_type) :
                   exercise' = [user_word_id |-> next_word, exercise_type |-> exercise_type,
                                wrong_options |-> wrong_options]
        /\ last' = (IF next_word \in {NULL, Raised} THEN last ELSE NoCall)
        /\ UNCHANGED <<users, words, sessions, is_trained, now, last_answer, streak, applied, bandit_vars,
                   checked, cycles, retrained, progress>>

\* update_average_response_time: float has no is_(), so the call raises
\* AttributeError whenever the row exists
update_average_response_time(W, user_word_id) ==
    IF user_word_id \in DOMAIN W THEN Raised ELSE NULL

\* The body the two answer handlers share (bot.py 186-229 and 344-393):
\* typed is TRUE in handle_text_input, which clears the exercise from the
\* context once the updates are through.  response_time is 0 only at the
\* instant of the prompt.
handle_answer(tg, is_correct, response_time, typed) ==
    LET c == ctx[tg]
        word_id == c.current_word_id
        op == IF typed THEN "handle_text_input" ELSE "handle_exercise_response"
    IN /\ response_time = 0 => c.exercise_start_time = now
       /\ IF word_id = NULL \/ word_id \notin DOMAIN words \/ ~UserExists(tg)
          THEN UNCHANGED vars
          ELSE LET session == LearningSession(UserId(tg), word_id, c.current_exercise_type,
                                              is_correct, response_time, now)
                   W1 == update_word_schedule(words, Visible(sessions, <<session>>),
                                              tg, word_id, is_correct, now)
                   retrain == c.word_count > 0 /\ c.word_count % retrain_every = 0
               IN /\ sessions' = Append(sessions, session)
                  /\ Track(W1, tg, word_id, is_correct, TRUE)
                  /\ IF response_time # 0 /\ update_average_response_time(W1, word_id) = Raised
                     THEN /\ words' = W1
                          /\ UNCHANGED <<ctx, is_trained, fitted, bandit_models, reward_log>>
                          /\ last' = Observed(op, tg, word_id, is_correct, Raised, words[word_id])
                     ELSE /\ bandit_models' \in update_reward(bandit_models, tg, c.current_exercise_type,
                                                                 is_correct, response_time)
                          /\ reward_log' = LogReward(reward_log, bandit_models, tg,
                                                     c.current_exercise_type, is_correct, response_time)
                          /\ is_trained' = (is_trained \/ (retrain /\ train_model(W1, tg)))
                          /\ fitted' = (IF retrain /\ train_model(W1, tg)
                                        THEN training_targets(W1, tg) ELSE fitted)
                          /\ words' \in (IF retrain
                                         THEN apply_predictions_to_user_words(W1, is_trained', tg)
                                         ELSE {W1})
                          /\ ctx' = (IF typed
                                     THEN [ctx EXCEPT ![tg] = [NoContext EXCEPT !.word_count = c.word_count]]
                                     ELSE ctx)
                          /\ last' = Observed(op, tg, word_id,
                                              is_correct, IF retrain THEN Retrained ELSE NULL,
                                              words[word_id])
                  /\ UNCHANGED <<users, now, last_pick, last_save, exercise,
                                 checked, cycles, retrained, progress>>

\* An answer by button
handle_exercise_response(tg, is_correct, response_time) ==
    handle_answer(tg, is_correct, response_time, FALSE)

\* An answer typed: for the translation formats only (line 334)
handle_text_input(tg, is_correct, response_time) ==
    IF ctx[tg].current_exercise_type \in {"translation_en_to_nl", "translation_nl_to_en"}
    THEN handle_answer(tg, is_correct, response_time, TRUE)
    ELSE UNCHANGED vars

\* "Remove This Word": the row is deleted, and the delete sets the
\* user_word_id of its learning sessions to NULL
remove_current_word(tg) ==
    LET word_id == ctx[tg].current_word_id
    IN IF word_id = NULL \/ ~UserExists(tg) \/ word_id \notin DOMAIN words
       THEN UNCHANGED vars
       ELSE /\ words' = [k \in DOMAIN words \ {word_id} |-> words[k]]
            /\ sessions' = [i \in 1..Len(sessions) |->
                              IF sessions[i].user_word_id = word_id
                              THEN [sessions[i] EXCEPT !.user_word_id = NULL]
                              ELSE sessions[i]]
            /\ ctx' = [ctx EXCEPT ![tg] = [NoContext EXCEPT !.word_count = ctx[tg].word_count]]
            /\ last_answer' = [k \in DOMAIN last_answer \ {word_id} |-> last_answer[k]]
            /\ streak' = [k \in DOMAIN streak \ {word_id} |-> streak[k]]
            /\ applied' = [k \in DOMAIN applied \ {word_id} |-> applied[k]]
            /\ last' = NoCall
            /\ UNCHANGED <<users, is_trained, now, bandit_vars, exercise,
                   checked, cycles, retrained, progress>>

\* The clock: the learner is away until the next scheduled review is due.
WaitUntilDue ==
    LET later == {d \in {words[w].next_review_date : w \in DOMAIN words} : d > now}
    IN /\ later # {}
       /\ now' = CHOOSE d \in later : \A e \in later : d <= e
       /\ last' = NoCall
       /\ UNCHANGED <<users, words, sessions, ctx, is_trained, last_answer, streak, applied, bandit_vars, exercise,
                   checked, cycles, retrained, progress>>

\* The clock: a day passes.
Tick ==
    /\ now' = now + 1
    /\ last' = NoCall
    /\ UNCHANGED <<users, words, sessions, ctx, is_trained, last_answer, streak, applied, bandit_vars, exercise,
                   checked, cycles, retrained, progress>>

Init ==
    /\ users = << >>
    /\ words = << >>
    /\ sessions = << >>
    /\ ctx = [tg \in TelegramIds |-> NoContext]
    /\ is_trained = FALSE
    /\ fitted = << >>
    /\ bandit_models = << >>
    /\ reward_log = << >>
    /\ last_pick = NoPick
    /\ last_save = NoSave
    /\ exercise = NoExercise
    /\ checked = NoCheck
    /\ cycles = NoCycles
    /\ retrained = NoRetrain
    /\ progress = NoProgress
    /\ now = 0
    /\ last = NoCall
    /\ last_answer = << >>
    /\ streak = << >>
    /\ applied = << >>

(***************************************************************************)
(* The bandit called directly, and the arms stored through the repository. *)
(***************************************************************************)
Latencies == {0, 10, 25}

\* ContextualBandits.update_reward for one answer
reward_feedback(user_id, exercise_type, is_correct, response_time) ==
    /\ bandit_models' \in update_reward(bandit_models, user_id, exercise_type,
                                        is_correct, response_time)
    /\ reward_log' = LogReward(reward_log, bandit_models, user_id, exercise_type,
                               is_correct, response_time)
    /\ last_pick' = NoPick
    /\ last_save' = NoSave
    /\ UNCHANGED <<users, words, sessions, ctx, is_trained, fitted, now,
                   last, last_answer, streak, applied, exercise,
                   checked, cycles, retrained, progress>>

HighArm == ArmParams([i \in 1..context_dim |-> 1], 2,
                     [i \in 1..context_dim |-> 0], [i \in 1..context_dim |-> 1])

SteepArm == ArmParams([i \in 1..context_dim |-> IF i = context_dim THEN 9 ELSE 0], 1,
                      [i \in 1..context_dim |-> 0], [i \in 1..context_dim |-> 2])

\* What is handed to save_model: fitted parameters with a trained flag, intact
\* or with the coefficient text cut short ("truncated": no JSON) or of another
\* dimension ("short").
ArmInputs ==
    {[params |-> HighArm, is_trained |-> TRUE, damage |-> "none"],
     [params |-> SteepArm, is_trained |-> TRUE, damage |-> "none"],
     [params |-> SteepArm, is_trained |-> FALSE, damage |-> "none"],
     [params |-> HighArm, is_trained |-> TRUE, damage |-> "truncated"],
     [params |-> HighArm, is_trained |-> TRUE, damage |-> "short"]}

stored_data(input) ==
    LET model_data == save_data(input.params, input.is_trained)
    IN IF input.damage = "truncated" THEN [model_data EXCEPT !.coefficients = <<"[">>]
       ELSE IF input.damage = "short" THEN [model_data EXCEPT !.coefficients = json_dumps(<<1>>)]
       ELSE model_data

\* BanditModelRepository.save_model
save_arm(user_id, exercise_type, input) ==
    /\ bandit_models' = save_model(bandit_models, user_id, exercise_type, stored_data(input))
    /\ last_save' = [user_id |-> user_id, exercise_type |-> exercise_type,
                     params |-> input.params, is_trained |-> input.is_trained,
                     damage |-> input.damage]
    /\ last_pick' = NoPick
    /\ UNCHANGED <<users, words, sessions, ctx, is_trained, fitted, now,
                   last, last_answer, streak, applied, reward_log, exercise,
                   checked, cycles, retrained, progress>>

\* ContextualBandits.select_exercise
select_format(user_id, user_word_id, explores) ==
    \E context \in get_context_features(words, user_word_id) :
    \E result \in select_exercise(bandit_models, context, user_id, explores) :
        /\ last_pick' = [user_id |-> user_id, context |-> context,
                         explores |-> explores, result |-> result]
        /\ last_save' = NoSave
        /\ UNCHANGED <<users, words, sessions, ctx, is_trained, fitted, bandit_models, now,
                       last, last_answer, streak, applied, reward_log, exercise,
                   checked, cycles, retrained, progress>>

(***************************************************************************)
(* The predictor called directly, on tables of answered words.             *)
(***************************************************************************)
\* LearningProgressPredictor.train_model(data_service, user_id)
train(user_id) ==
    /\ is_trained' = (is_trained \/ train_model(words, user_id))
    /\ fitted' = (IF train_model(words, user_id) THEN training_targets(words, user_id) ELSE fitted)
    /\ last' = Observed("train_model", user_id, NULL, train_model(words, user_id), NULL, NoWord)
    /\ UNCHANGED <<users, words, sessions, ctx, bandit_models, now, last_answer, streak, applied,
                   reward_log, last_pick, last_save, exercise,
                   checked, cycles, retrained, progress>>

\* LearningProgressPredictor.predict_mastery(data_service, user_id, user_word_id)
predict(user_id, user_word_id) ==
    \E mastery \in predict_mastery("MLDataService", words, is_trained, user_word_id) :
        /\ last' = Observed("predict_mastery", user_id, user_word_id, FALSE, mastery, NoWord)
        /\ UNCHANGED <<users, words, sessions, ctx, is_trained, fitted, bandit_models, now,
                       last_answer, streak, applied, reward_log, last_pick, last_save, exercise,
                   checked, cycles, retrained, progress>>

\* LearningProgressPredictor.apply_predictions_to_user_words(data_service, user_id)
apply(user_id) ==
    /\ words' \in apply_predictions_to_user_words(words, is_trained, user_id)
    /\ last' = Observed("apply_predictions_to_user_words", user_id, NULL, is_trained, NULL, NoWord)
    /\ UNCHANGED <<users, sessions, ctx, is_trained, fitted, bandit_models, now,
                   last_answer, streak, applied, reward_log, last_pick, last_save, exercise,
                   checked, cycles, retrained, progress>>

\* ExerciseManager.generate_exercise(db, user_word, exercise_type)
generate(user_word_id, exercise_type) ==
    /\ user_word_id \in DOMAIN words
    /\ \E wrong_options \in generate_exercise(words, user_word_id, exercise_type) :
          exercise' = [user_word_id |-> user_word_id, exercise_type |-> exercise_type,
                       wrong_options |-> wrong_options]
    /\ UNCHANGED <<users, words, sessions, ctx, is_trained, fitted, bandit_models, now,
                   last, last_answer, streak, applied, reward_log, last_pick, last_save,
                   checked, cycles, retrained, progress>>

\* The row of a word after n answers, all correct or all incorrect, on day 0.
Answered(row, n, is_correct) ==
    LET RECURSIVE After(_)
        After(k) == IF k = 0 THEN row ELSE scheduled_word(After(k - 1), 1, is_correct, 0)
    IN After(n)

\* The histories the words of the tables have: never answered, answered once
\* and wrongly, answered correctly as often as mastery asks for.
Histories == {<<0, FALSE>>, <<1, FALSE>>, <<mastered_threshold, TRUE>>}

\* One learner with MaxTrainWords words of these histories.
InitPredictor ==
    /\ users = <<Learner>>
    /\ \E h \in [1..MaxTrainWords -> Histories] :
          words = [w \in 1..MaxTrainWords |-> Answered(UserWord(1, w), h[w][1], h[w][2])]
    /\ sessions = << >>
    /\ ctx = [tg \in TelegramIds |-> NoContext]
    /\ is_trained = FALSE
    /\ fitted = << >>
    /\ bandit_models = << >>
    /\ reward_log = << >>
    /\ last_pick = NoPick
    /\ last_save = NoSave
    /\ exercise = NoExercise
    /\ checked = NoCheck
    /\ cycles = NoCycles
    /\ retrained = NoRetrain
    /\ progress = NoProgress
    /\ now = 0
    /\ last = NoCall
    /\ last_answer = << >>
    /\ streak = [w \in 1..MaxTrainWords |-> NoStreak]
    /\ applied = [w \in DOMAIN words |-> [updates |-> words[w].times_seen, correct |-> words[w].times_correct, interleaved |-> 0]]

(***************************************************************************)
(* Spec: the scheduler's contract.  Learners are created and given words,  *)
(* and the scheduler is called directly, with known and unknown learner    *)
(* and item identities, while days pass.                                   *)
(***************************************************************************)
SumSeen == LET RECURSIVE Sum(_)
               Sum(D) == IF D = {} THEN 0
                         ELSE LET w == CHOOSE x \in D : TRUE
                              IN words[w].times_seen + Sum(D \ {w})
           IN Sum(DOMAIN words)

Room(n) == Cardinality(DOMAIN words) + n <= MaxWords

Next ==
    \/ \E tg \in TelegramIds : Room(NumDefaultWords) /\ start(tg)
    \/ \E tg \in TelegramIds, x \in Texts : Room(1) /\ add_word(tg, x)
    \/ \E tg \in TelegramIds, w \in 1..MaxWords, c \in BOOLEAN :
          SumSeen < MaxUpdates /\ record_outcome(tg, w, c)
    \/ now < MaxDay /\ Tick

Spec == Init /\ [][Next]_vars

(***************************************************************************)
(* SpecStreak: one learner, long answer sequences on the first word, each  *)
(* answer given at once or when the next review is due.                    *)
(***************************************************************************)

NextStreak ==
    \/ start(Learner)
    \/ \E c \in BOOLEAN : SumSeen < MaxStreak /\ record_outcome(Learner, 1, c)
    \/ WaitUntilDue

SpecStreak == Init /\ [][NextStreak]_vars

(***************************************************************************)
(* SpecFlow: one learner's chat with the bot's handlers, and direct calls  *)
(* of the scheduler; the learner comes back when a review is due.          *)
(***************************************************************************)
NextFlow ==
    \/ start(Learner)
    \/ \E w \in 1..NumDefaultWords, c \in BOOLEAN :
          SumSeen - Len(sessions) < MaxFlowDirect /\ record_outcome(Learner, w, c)
    \/ \E et \in DrawnFormats :
          ctx[Learner].word_count < MaxWordCount /\ get_next_word(Learner, et)
    \/ \E c \in BOOLEAN, rt \in ResponseTimes :
          Len(sessions) < MaxFlowSessions /\ handle_exercise_response(Learner, c, rt)
    \/ remove_current_word(Learner)
    \/ WaitUntilDue

SpecFlow == Init /\ [][NextFlow]_vars

(***************************************************************************)
(* SpecArm: reward updates of one learner's arms, as many as the retrain   *)
(* threshold asks for.                                                     *)
(***************************************************************************)
ArmUser == 1

RewardCalls(key) == IF key \in DOMAIN reward_log THEN reward_log[key].n ELSE 0

NextArm ==
    \E et \in DrawnFormats, c \in BOOLEAN, rt \in Latencies :
        /\ RewardCalls(<<ArmUser, et>>) < MaxRewardUpdates
        /\ reward_feedback(ArmUser, et, c, rt)

SpecArm == Init /\ [][NextArm]_vars

(***************************************************************************)
(* SpecBandit: arms are saved for one learner and formats are selected.    *)
(***************************************************************************)
\* The formats the runs store an arm for, three of the four.
SavedFormats == {exercise_type_list[i] : i \in 1..3}

NextBandit ==
    \/ start(Learner)
    \/ \E et \in SavedFormats, input \in ArmInputs : save_arm(ArmUser, et, input)
    \/ \E explores \in BOOLEAN : select_format(ArmUser, 1, explores)

SpecBandit == Init /\ [][NextBandit]_vars

(***************************************************************************)
(* SpecPredictor: the predictor is trained and asked, for the learner of   *)
(* the table and for a user id without rows.                               *)
(***************************************************************************)
NextPredictor ==
    \/ \E user_id \in 1..2 : train(user_id)
    \/ \E user_word_id \in 1..(MaxTrainWords + 1) : predict(1, user_word_id)

SpecPredictor == InitPredictor /\ [][NextPredictor]_vars

(***************************************************************************)
(* SpecShared: two learners and the one predictor object of the bot        *)
(* (self.progress_predictor), trained for either learner.  The             *)
(* first learner has MaxTrainWords words, the second has one word answered *)
(* once and one never shown, and is the one predictions are made for and   *)
(* applied to.                                                             *)
(***************************************************************************)
InitShared ==
    /\ users = <<Learner, CHOOSE tg \in TelegramIds : tg # Learner>>
    /\ \E h \in [1..MaxTrainWords -> Histories] :
          words = [w \in 1..(MaxTrainWords + 2) |->
                      IF w <= MaxTrainWords
                      THEN Answered(UserWord(1, w), h[w][1], h[w][2])
                      ELSE IF w = MaxTrainWords + 1
                      THEN Answered(UserWord(2, w), 1, TRUE)
                      ELSE UserWord(2, w)]
    /\ sessions = << >>
    /\ ctx = [tg \in TelegramIds |-> NoContext]
    /\ is_trained = FALSE
    /\ fitted = << >>
    /\ bandit_models = << >>
    /\ reward_log = << >>
    /\ last_pick = NoPick
    /\ last_save = NoSave
    /\ exercise = NoExercise
    /\ checked = NoCheck
    /\ cycles = NoCycles
    /\ retrained = NoRetrain
    /\ progress = NoProgress
    /\ now = 0
    /\ last = NoCall
    /\ last_answer = << >>
    /\ streak = [w \in 1..(MaxTrainWords + 2) |-> NoStreak]
    /\ applied = [w \in DOMAIN words |-> [updates |-> words[w].times_seen, correct |-> words[w].times_correct, interleaved |-> 0]]

NextShared ==
    \/ \E user_id \in 1..2 : train(user_id)
    \/ \E user_word_id \in (MaxTrainWords + 1)..(MaxTrainWords + 2) : predict(2, user_word_id)
    \/ apply(2)

SpecShared == InitShared /\ [][NextShared]_vars

(***************************************************************************)
(* SpecCadence: one learner asks for the next word, with or without        *)
(* answering the one on screen, and answers it, as often as the retrain    *)
(* cadence asks for; the answers of a run are all right or all wrong.      *)
(***************************************************************************)
NextCadence ==
    \/ start(Learner)
    \/ \E c \in BOOLEAN :
          SumSeen - Len(sessions) < MaxFlowDirect /\ record_outcome(Learner, 1, c)
    \/ \E et \in DrawnFormats :
          ctx[Learner].word_count < MaxPrompts /\ get_next_word(Learner, et)
    \/ \E c \in BOOLEAN, rt \in ResponseTimes :
          /\ Len(sessions) < MaxAnswers
          /\ \A i \in 1..Len(sessions) : sessions[i].is_correct = c
          /\ handle_exercise_response(Learner, c, rt)

SpecCadence == Init /\ [][NextCadence]_vars

(***************************************************************************)
(* SpecVocabulary: one learner's vocabulary: words are added, shown,       *)
(* answered, removed and added again.                                      *)
(***************************************************************************)
NextVocabulary ==
    \/ start(Learner)
    \/ \E x \in Texts : Room(1) /\ add_word(Learner, x)
    \/ \E w \in 1..NumDefaultWords, c \in BOOLEAN :
          SumSeen - Len(sessions) < MaxFlowDirect /\ record_outcome(Learner, w, c)
    \/ \E et \in DrawnFormats :
          ctx[Learner].word_count < MaxFlowSessions /\ get_next_word(Learner, et)
    \/ \E c \in BOOLEAN, rt \in ResponseTimes :
          Len(sessions) < MaxFlowDirect /\ handle_exercise_response(Learner, c, rt)
    \/ remove_current_word(Learner)

SpecVocabulary == Init /\ [][NextVocabulary]_vars

(***************************************************************************)
(* SpecChoice: two learners with the default vocabulary; the first adds    *)
(* words of his own, and exercises are generated for the words of both.    *)
(***************************************************************************)
ChoiceTexts == (NumDefaultWords + 1)..(NumDefaultWords + 2)

NextChoice ==
    \/ \E tg \in TelegramIds : start(tg)
    \/ \E x \in ChoiceTexts : add_word(Learner, x)
    \/ \E w \in DOMAIN words, et \in exercise_types : generate(w, et)

SpecChoice == Init /\ [][NextChoice]_vars

(***************************************************************************)
(* check_answer called with typed answers: the words are two with an       *)
(* article in the Dutch text and one without, and the answers every text   *)
(* of at most MaxAnswerLen characters.                                     *)
(***************************************************************************)
CheckedWords ==
    {[dutch_word |-> <<"d", "e", " ", "k", "e">>, english_translation |-> <<"k", "e", "k">>],
     [dutch_word |-> <<"h", "e", "t", " ", "k">>, english_translation |-> <<"d", "e", " ", "k">>],
     [dutch_word |-> <<"k", "e", "k", "e">>, english_translation |-> <<"e", "k">>]}

TypedAnswers == UNION {[1..n -> Alphabet] : n \in 1..MaxAnswerLen}

check(word, exercise_type, user_answer) ==
    /\ checked' = [word |-> word, exercise_type |-> exercise_type, user_answer |-> user_answer,
                   is_correct |-> check_answer(word, exercise_type, user_answer)]
    /\ UNCHANGED <<users, words, sessions, ctx, is_trained, fitted, bandit_models, now,
                   last, last_answer, streak, applied, reward_log, last_pick, last_save, exercise, cycles, retrained, progress>>

NextAnswer ==
    /\ checked = NoCheck
    /\ \E word \in CheckedWords, exercise_type \in exercise_types, user_answer \in TypedAnswers :
          check(word, exercise_type, user_answer)

SpecAnswer == Init /\ [][NextAnswer]_vars

(***************************************************************************)
(* Two schedule updates of one learner's rows in two Sessions, after some  *)
(* updates made one at a time.                                             *)
(***************************************************************************)
RacedWords == 1..2

NextRace ==
    \/ start(Learner)
    \/ \E w \in RacedWords, c \in BOOLEAN :
          cycles = NoCycles /\ SumSeen < MaxUpdates /\ record_outcome(Learner, w, c)
    \/ now < MaxDay /\ Tick
    \/ \E k \in Cycles, w \in RacedWords, c \in BOOLEAN : read_modify(k, Learner, w, c)
    \/ \E k \in Cycles : commit(k)

SpecRace == Init /\ [][NextRace]_vars

(***************************************************************************)
(* SpecRetrain: _train_and_save_model called directly for one learner and  *)
(* two formats, with buffers of min_fit_rows - 1 to MaxBufferLen rows:     *)
(* two rows of one context followed by rows of the zero context, the       *)
(* labels at most two ones followed by zeros.                              *)
(***************************************************************************)
MaxBufferLen == 5
MaxRetrains == 2

RetrainFormats == {exercise_type_list[1], exercise_type_list[3]}

ZeroContext == [i \in 1..context_dim |-> 0]

RetrainBuffers ==
    {[contexts |-> [r \in 1..n |-> IF r <= 2 THEN a ELSE ZeroContext],
      rewards |-> [r \in 1..n |-> IF r <= p THEN 1 ELSE 0]] :
        n \in (min_fit_rows - 1)..MaxBufferLen, p \in 0..2, a \in Contexts \ {ZeroContext}}

retrain(user_id, exercise_type, model_data) ==
    LET again == /\ retrained.user_id = user_id
                 /\ retrained.exercise_type = exercise_type
                 /\ retrained.model_data = model_data
    IN /\ again => retrained.n < MaxRetrains
       /\ bandit_models' \in _train_and_save_model(bandit_models, user_id, exercise_type, model_data)
       /\ retrained' = [user_id |-> user_id, exercise_type |-> exercise_type,
                        model_data |-> model_data,
                        n |-> IF again THEN retrained.n + 1 ELSE 1,
                        first |-> IF again THEN retrained.first ELSE bandit_models']
       /\ UNCHANGED <<users, words, sessions, ctx, is_trained, fitted, now,
                      last, last_answer, streak, applied, reward_log, last_pick, last_save, exercise,
                      checked, cycles, progress>>

NextRetrain ==
    \E exercise_type \in RetrainFormats, model_data \in RetrainBuffers :
        retrain(ArmUser, exercise_type, model_data)

SpecRetrain == Init /\ [][NextRetrain]_vars

(***************************************************************************)
(* SpecDelivery: one learner is shown exercises and answers are delivered, *)
(* by button and typed, as often as they come, after a schedule update     *)
(* made directly before the first exercise; no day passes.                 *)
(***************************************************************************)
NextDelivery ==
    \/ start(Learner)
    \/ \E w \in 1..NumDefaultWords, c \in BOOLEAN :
          /\ ctx[Learner].word_count = 0
          /\ SumSeen < MaxFlowDirect
          /\ record_outcome(Learner, w, c)
    \/ \E et \in DrawnFormats :
          ctx[Learner].word_count < MaxFlowSessions /\ get_next_word(Learner, et)
    \/ \E c \in BOOLEAN, rt \in ResponseTimes :
          Len(sessions) < MaxFlowSessions /\ handle_exercise_response(Learner, c, rt)
    \/ \E c \in BOOLEAN, rt \in ResponseTimes :
          Len(sessions) < MaxFlowSessions /\ handle_text_input(Learner, c, rt)

SpecDelivery == Init /\ [][NextDelivery]_vars

(***************************************************************************)
(* SpecOwners: every learner has the default vocabulary, and schedule      *)
(* updates are called for any learner and any word.                        *)
(***************************************************************************)
AllDefaultWords == 1..(Cardinality(TelegramIds) * NumDefaultWords)

NextOwners ==
    \/ \E tg \in TelegramIds : start(tg)
    \/ \E tg \in TelegramIds, w \in AllDefaultWords, c \in BOOLEAN :
          SumSeen < MaxUpdates - 1 /\ record_outcome(tg, w, c)
    \/ now < MaxDay - 1 /\ Tick

SpecOwners == Init /\ [][NextOwners]_vars

(***************************************************************************)
(* SpecStale: one learner; one read-modify-write cycle on a word is held   *)
(* between its read and its commit while other schedule updates, each read *)
(* and committed in one step, are applied.                                 *)
(***************************************************************************)
NextStale ==
    \/ start(Learner)
    \/ \E w \in RacedWords, c \in BOOLEAN :
          SumSeen < MaxUpdates /\ record_outcome(Learner, w, c)
    \/ \E w \in RacedWords, c \in BOOLEAN : read_modify(1, Learner, w, c)
    \/ commit(1)

SpecStale == Init /\ [][NextStale]_vars

(***************************************************************************)
(* SpecMastery: the progress update applied to one row again and again,    *)
(* with any sequence of correct and incorrect answers, the mastery kept as *)
(* the double the code writes.                                             *)
(***************************************************************************)
MaxSeen == 12

NextMastery ==
    \E is_correct \in BOOLEAN :
        progress.user_word.times_seen < MaxSeen /\ update_progress(is_correct)

SpecMastery == Init /\ [][NextMastery]_vars

(***************************************************************************)
(* The claims.                                                             *)
(***************************************************************************)
ScheduleWritten == last.op \in {"update_word_schedule", "handle_exercise_response"}

\* C1: after any sequence of schedule updates with any pattern of correct and
\* incorrect answers, every item's ease_factor is within [1.3, 3.0].
C1_EaseFactorWithinBounds ==
    \A w \in DOMAIN words : words[w].ease_factor >= 13 /\ words[w].ease_factor <= 30

\* A correct answer on an item whose ease_factor is already 3.0.
C1_Witness ==
    /\ ScheduleWritten /\ last.correct
    /\ last.pre.ease_factor = 30
    /\ words[last.w].ease_factor = 30

\* C2: for every item with a recorded answer, repetition_count is 0 exactly
\* when the most recent answer was incorrect, and at least 1 when it was correct.
C2_RepetitionCountTracksLastAnswer ==
    \A w \in DOMAIN last_answer :
        /\ w \in DOMAIN words
        /\ (words[w].repetition_count = 0) <=> ~last_answer[w]
        /\ last_answer[w] => words[w].repetition_count >= 1

\* An item answered correctly before, whose last answer was incorrect.
C2_Witness ==
    \E w \in DOMAIN last_answer :
        ~last_answer[w] /\ words[w].times_correct >= 1 /\ words[w].repetition_count = 0

\* C3: an incorrect answer resets repetition_count to 0 and schedules the
\* review one day ahead, whatever the streak and the ease_factor were.
C3_IncorrectResets ==
    (ScheduleWritten /\ ~last.correct) =>
        /\ words[last.w].repetition_count = 0
        /\ words[last.w].next_review_date = now + 1

\* An incorrect answer after a streak of two correct ones.
C3_Witness ==
    /\ ScheduleWritten /\ ~last.correct
    /\ last.pre.repetition_count >= 2
    /\ last.pre.ease_factor # 25
    /\ words[last.w].repetition_count = 0

\* C6: a schedule update of an existing learner's item adds 1 to times_seen,
\* adds 1 to times_correct iff the answer is correct, sets last_seen and
\* next_review_date and stores the repetition count; one correct answer on a
\* fresh item gives count 1, seen 1, correct 1, mastery 0.1, review in one day.
C6_RecordOutcomeEffect ==
    ScheduleWritten =>
        LET p == last.pre
            q == words[last.w]
        IN /\ q.times_seen = p.times_seen + 1
           /\ q.times_correct = p.times_correct + (IF last.correct THEN 1 ELSE 0)
           /\ q.last_seen = now
           /\ q.next_review_date # NULL /\ q.next_review_date > now
           /\ q.repetition_count = (IF last.correct THEN p.repetition_count + 1 ELSE 0)
           /\ (p.times_seen = 0 /\ last.correct) =>
                 /\ q.repetition_count = 1 /\ q.times_seen = 1 /\ q.times_correct = 1
                 /\ q.mastery_level = 1
                 /\ q.next_review_date = now + 1

\* One correct answer on a fresh item.
C6_Witness ==
    /\ ScheduleWritten /\ last.correct /\ last.pre.times_seen = 0
    /\ words[last.w].times_seen = 1

\* An incorrect answer on an item answered before.
C6_WitnessIncorrect ==
    /\ ScheduleWritten /\ ~last.correct /\ last.pre.times_correct >= 1
    /\ words[last.w].times_correct = last.pre.times_correct

\* C7 as stated: the heuristic mastery is in [0,1] and is 0 exactly when the
\* item has never been seen.
C7_MasteryZeroIffUnseen ==
    \A w \in DOMAIN words :
        /\ words[w].mastery_level >= 0 /\ words[w].mastery_level <= 10
        /\ (words[w].mastery_level = 0) <=> (words[w].times_seen = 0)

\* C7 as amended: the heuristic mastery is in [0,1] and is 0 exactly when the
\* item has never been answered correctly.
C7_MasteryZeroIffNeverCorrect ==
    \A w \in DOMAIN words :
        /\ words[w].mastery_level >= 0 /\ words[w].mastery_level <= 10
        /\ (words[w].mastery_level = 0) <=> (words[w].times_correct = 0)

\* An item answered, never correctly: its mastery is 0.
C7_Witness ==
    /\ ScheduleWritten /\ ~last.correct /\ last.pre.times_seen = 0
    /\ words[last.w].times_seen = 1 /\ words[last.w].mastery_level = 0

\* C8: once an answer has been recorded for an item, its next_review_date is
\* not NULL in any later state.
C8_NextReviewSetOnceAnswered ==
    \A w \in DOMAIN last_answer :
        w \in DOMAIN words /\ words[w].next_review_date # NULL

\* A day after an item's only answer, an incorrect one.
C8_Witness ==
    \E w \in DOMAIN last_answer :
        /\ ~last_answer[w] /\ words[w].times_seen = 1
        /\ now > words[w].last_seen
        /\ words[w].next_review_date # NULL

\* round(): to the nearest integer, a half to the even one; x is in tenths.
round(x) ==
    LET q == x \div 10
        r == x % 10
    IN IF r < 5 THEN q
       ELSE IF r > 5 THEN q + 1
       ELSE IF q % 2 = 0 THEN q ELSE q + 1

\* C4: an all-correct streak from a fresh item, each answer given on its
\* scheduled review date through the answer flow, has the intervals 1, 6, 16
\* and then growing ones, and the ease_factor gains 0.1 per answer up to 3.0.
C4_StreakIntervals ==
    \A w \in DOMAIN streak :
        LET st == streak[w].intervals
        IN (streak[w].unbroken /\ w \in DOMAIN words) =>
              /\ Len(st) >= 1 => st[1] = 1
              /\ Len(st) >= 2 => st[2] = 6
              /\ Len(st) >= 3 => st[3] = 16
              /\ \A i \in 4..Len(st) : st[i] > st[i - 1]
              /\ words[w].ease_factor = Min(30, 25 + Len(st))

\* C5: a correct answer with r = repetition_count + 1 >= 3 gives the interval
\* max(1, round(prev_interval_days * ease_factor)), prev_interval_days being
\* the day-difference of the item's two most recent review events, the one of
\* this answer included, and 1 when there are fewer than two.
C5_LaterInterval ==
    (last.op = "handle_exercise_response" /\ last.correct
       /\ last.pre.repetition_count + 1 >= 3) =>
        LET prev_interval_days == _get_previous_interval(sessions, UserId(last.tg), last.w)
        IN words[last.w].next_review_date - now =
              Max(1, round(prev_interval_days * last.pre.ease_factor))

\* C9: for a known learner with at least one active item the selection
\* returns an item, with or without a mastery predictor.
C9_PickNextReturnsItem ==
    \A tg \in TelegramIds : \A with_predictor \in BOOLEAN :
        (UserExists(tg) /\ ActiveWords(words, UserId(tg)) # {}) =>
            \A r \in get_next_word_for_review(words, is_trained, tg, with_predictor, now) :
                r \in ActiveWords(words, UserId(tg))

\* C10: when an active item of the learner is due the selection returns a
\* due item, one with a NULL next_review_date if there is one, and mastery
\* only decides among the due items of the first scheduling rank.
C10_PickNextPrefersDue ==
    \A tg \in TelegramIds : \A with_predictor \in BOOLEAN :
        UserExists(tg) =>
            LET due == _get_due_words(words, UserId(tg), now)
            IN due # {} =>
                 \A r \in get_next_word_for_review(words, is_trained, tg, with_predictor, now) :
                     /\ r \in due
                     /\ r \in first_due_words(words, due)
                     /\ (\E w \in due : words[w].next_review_date = NULL) =>
                            words[r].next_review_date = NULL

\* C11: when no active item is due, the selection returns the unseen active
\* item of lowest id if there is one, otherwise a seen active item: that of
\* lowest predicted mastery with a predictor, the least recently seen without.
C11_PickNextFallback ==
    \A tg \in TelegramIds : \A with_predictor \in BOOLEAN :
        (UserExists(tg) /\ _get_due_words(words, UserId(tg), now) = {}) =>
            LET active == ActiveWords(words, UserId(tg))
                unseen == {w \in active : words[w].times_seen = 0}
                seen == active \ unseen
            IN \A r \in get_next_word_for_review(words, is_trained, tg, with_predictor, now) :
                  /\ unseen # {} => (r \in unseen /\ \A v \in unseen : r <= v)
                  /\ (unseen = {} /\ seen # {}) =>
                        /\ r \in seen
                        /\ ~with_predictor => \A v \in seen : words[r].last_seen <= words[v].last_seen

\* C12: the reward buffer of an arm persists across reward updates: after
\* the n-th update of a (learner, format) key the buffer holds n entries.
C12_BufferPersists ==
    \A key \in DOMAIN reward_log : reward_log[key].buffer = reward_log[key].n

\* C13: an arm that has received 10 reward updates, of both labels, is trained.
C13_ArmTrainedAfterTen ==
    \A key \in DOMAIN reward_log :
        (reward_log[key].n >= 10 /\ reward_log[key].labels = {0, 1}) =>
            (key \in DOMAIN bandit_models /\ bandit_models[key].is_trained)

\* C14: the reward label is 1 for a correct answer and 0 for an incorrect
\* one, whatever the latency.
C14_LabelIsCorrectness ==
    \A key \in DOMAIN reward_log :
        reward_log[key].label = (IF reward_log[key].is_correct THEN 1 ELSE 0)

\* An incorrect answer given at once (the largest time bonus) and a correct
\* one given after 25 seconds (no time bonus).
C14_Witness ==
    \E k1, k2 \in DOMAIN reward_log :
        /\ ~reward_log[k1].is_correct /\ reward_log[k1].response_time = 0
        /\ reward_log[k1].label = 0
        /\ reward_log[k2].is_correct /\ reward_log[k2].response_time = 25
        /\ reward_log[k2].label = 1

Picked == last_pick # NoPick

\* The formats whose stored arm is trained and predicts for the context of
\* the last selection, with the predicted reward of each.
PickArms ==
    {et \in exercise_types :
        /\ <<last_pick.user_id, et>> \in DOMAIN bandit_models
        /\ bandit_models[<<last_pick.user_id, et>>].is_trained
        /\ load_model_data(bandit_models, last_pick.user_id, et).found
        /\ _predict_reward(last_pick.context,
                           load_model_data(bandit_models, last_pick.user_id, et)).ok}

PickReward(et) ==
    _predict_reward(last_pick.context, load_model_data(bandit_models, last_pick.user_id, et))

\* C15: without exploration the selection returns a format whose arm is
\* trained and whose predicted reward no trained arm exceeds, whenever some
\* trained arm predicts.
C15_ExploitReturnsBestArm ==
    (Picked /\ ~last_pick.explores /\ PickArms # {}) =>
        /\ last_pick.result \in PickArms
        /\ \A et \in PickArms : ~reward_greater(PickReward(et), PickReward(last_pick.result))

\* Two trained arms of different predicted reward, the better one later in
\* the order of the formats.
C15_Witness ==
    /\ Picked /\ ~last_pick.explores
    /\ last_pick.result = "multiple_choice_nl_to_en"
    /\ "multiple_choice_en_to_nl" \in PickArms
    /\ reward_greater(PickReward(last_pick.result), PickReward("multiple_choice_en_to_nl"))

\* C16: the selection always returns one of the four formats, exploring,
\* exploiting or falling back to the weighted pool.
C16_ResultIsAFormat ==
    /\ Picked => last_pick.result \in exercise_types
    /\ \A tg \in TelegramIds :
          ctx[tg].current_word_id # NULL => ctx[tg].current_exercise_type \in exercise_types

\* The fallback: no exploration, no trained arm, a free-text format drawn.
C16_Witness ==
    /\ Picked /\ ~last_pick.explores /\ PickArms = {}
    /\ last_pick.result = "translation_en_to_nl"

\* The stored arms of the learner of the last selection that are trained but
\* fail: their text does not load, or their prediction raises.
FailingArms ==
    {et \in exercise_types :
        /\ <<last_pick.user_id, et>> \in DOMAIN bandit_models
        /\ bandit_models[<<last_pick.user_id, et>>].is_trained
        /\ et \notin PickArms}

\* C17: a failing arm never aborts the selection: it is left out, the choice
\* is made among the other trained arms, and the weighted pool is used if
\* none is left.
C17_FailingArmIsSkipped ==
    (Picked /\ FailingArms # {}) =>
        /\ last_pick.result \in exercise_types
        /\ (~last_pick.explores /\ PickArms # {}) =>
              /\ last_pick.result \in PickArms
              /\ \A et \in PickArms :
                    ~reward_greater(PickReward(et), PickReward(last_pick.result))

\* Every stored arm fails, in both ways, and the pool is used.
C17_Witness ==
    /\ Picked /\ ~last_pick.explores /\ PickArms = {}
    /\ \E e1, e2 \in FailingArms :
          /\ ~load_model_data(bandit_models, last_pick.user_id, e1).found
          /\ load_model_data(bandit_models, last_pick.user_id, e2).found
    /\ last_pick.result \in exercise_types

\* A failing arm next to a predicting one, which is chosen.
C17_WitnessRemaining ==
    /\ Picked /\ ~last_pick.explores /\ FailingArms # {}
    /\ last_pick.result \in PickArms

\* C18: an arm saved for a key and then loaded by the key comes back with
\* the coefficients, intercept and scaling parameters it was saved with,
\* whatever its trained flag.
C18_SaveLoadRoundTrip ==
    (last_save # NoSave /\ last_save.damage = "none") =>
        LET model_data == load_model_data(bandit_models, last_save.user_id, last_save.exercise_type)
        IN /\ model_data.found
           /\ model_data.coefficients = last_save.params.coefficients
           /\ model_data.intercept = last_save.params.intercept
           /\ model_data.scaler_mean = last_save.params.scaler_mean
           /\ model_data.scaler_scale = last_save.params.scaler_scale

\* C19: train_model with fewer than 5 training rows, or with one class of
\* targets only, reports failure and leaves the trained flag and the fitted
\* scaler and classifier as they were; otherwise it succeeds.
C19_TrainSkipped ==
    [][last'.op = "train_model" =>
         LET rows == training_rows(words, last'.tg)
             classes == {training_targets(words, last'.tg)[w] : w \in rows}
         IN /\ last'.correct <=> (Cardinality(rows) >= 5 /\ Cardinality(classes) = 2)
            /\ ~last'.correct => (is_trained' = is_trained /\ fitted' = fitted)]_vars

\* A training skipped for one class of targets among five rows.
C19_Witness ==
    /\ last.op = "train_model" /\ ~last.correct
    /\ Cardinality(training_rows(words, last.tg)) >= 5

\* A training skipped for want of rows after one that succeeded: the
\* predictor is still trained and fitted.
C19_WitnessKept ==
    /\ last.op = "train_model" /\ ~last.correct
    /\ training_rows(words, last.tg) = {}
    /\ is_trained /\ fitted # << >>

\* C20: predict_mastery returns 0.0 for an unseen item, for an item that does
\* not exist and for an untrained predictor, and a value in [0,1] always.
C20_PredictDefaultsToZero ==
    last.op = "predict_mastery" =>
        /\ last.res >= 0 /\ last.res <= 10
        /\ (\/ last.w \notin DOMAIN words
            \/ ~is_trained
            \/ words[last.w].times_seen = 0) => last.res = 0

\* A trained predictor asked about a seen item, with a prediction above 0.
C20_WitnessTrained ==
    /\ last.op = "predict_mastery" /\ is_trained /\ last.res > 0

\* An untrained predictor asked about a seen item.
C20_Witness ==
    /\ last.op = "predict_mastery" /\ ~is_trained
    /\ last.w \in DOMAIN words /\ words[last.w].times_seen > 0
    /\ last.res = 0

\* C21: the mastery classifier is per learner: a prediction for a learner
\* other than 0.0 comes from a classifier fitted on that learner's own rows,
\* so a learner whose own training never succeeded is predicted 0.0 whatever
\* another learner answered or retrained.
C21_ClassifierPerLearner ==
    (last.op = "predict_mastery" /\ last.res # 0) =>
        /\ fitted # << >>
        /\ \A w \in DOMAIN fitted : words[w].user_id = last.tg

\* C22: apply_predictions_to_user_words changes nothing when the predictor
\* is untrained; when it is trained only mastery_level of the seen items of
\* that learner is written, with a value in [0,1]: unseen items, the items
\* of other learners and every scheduling field and counter stay as they were.
C22_ApplyFrame ==
    [][last'.op = "apply_predictions_to_user_words" =>
         /\ DOMAIN words' = DOMAIN words
         /\ ~is_trained => words' = words
         /\ \A w \in DOMAIN words :
              /\ [words'[w] EXCEPT !.mastery_level = words[w].mastery_level] = words[w]
              /\ words'[w].mastery_level >= 0 /\ words'[w].mastery_level <= 10
              /\ (words[w].user_id # last'.tg \/ words[w].times_seen = 0)
                    => words'[w] = words[w]]_vars

\* Predictions applied by a trained predictor: the seen item of the learner
\* no longer has the heuristic value, the unseen one is as it was created.
C22_Witness ==
    /\ last.op = "apply_predictions_to_user_words" /\ last.correct
    /\ \E w \in DOMAIN words :
          /\ words[w].user_id = last.tg /\ words[w].times_seen > 0
          /\ words[w].mastery_level # heuristic_mastery(words[w].times_seen, words[w].times_correct)
    /\ \E w \in DOMAIN words :
          /\ words[w].user_id = last.tg /\ words[w] = UserWord(last.tg, words[w].dutch_word)

\* Predictions asked of an untrained predictor.
C22_WitnessUntrained ==
    /\ last.op = "apply_predictions_to_user_words" /\ ~last.correct
    /\ \E w \in DOMAIN words : words[w].user_id = last.tg /\ words[w].mastery_level > 0

\* The reward updates made so far, over all arms.
TotalRewardCalls ==
    LET RECURSIVE Sum(_)
        Sum(D) == IF D = {} THEN 0
                  ELSE LET k == CHOOSE x \in D : TRUE
                       IN reward_log[k].n + Sum(D \ {k})
    IN Sum(DOMAIN reward_log)

\* C23: handling an answer of an existing learner on an existing item always
\* completes, and is one transaction: no state has the schedule update of an
\* answer committed (with its learning session) while the reward update of
\* that answer is missing.
C23_AnswerIsOneTransaction ==
    last.op = "handle_exercise_response" =>
        /\ last.res # Raised
        /\ Len(sessions) = TotalRewardCalls

\* C24: average_response_time is an exponential moving average with factor
\* 0.3: after an answer with latency t on an item whose stored average is a,
\* the stored average is t if a was 0, and 0.3 * t + 0.7 * a otherwise.
C24_ResponseTimeMovingAverage ==
    last.op = "handle_exercise_response" =>
        LET t == sessions[Len(sessions)].response_time
            a == last.pre.average_response_time
        IN IF a = 0
           THEN words[last.w].average_response_time = t
           ELSE 10 * words[last.w].average_response_time = 3 * t + 7 * a

\* C25: an operation given an unknown learner or an unknown item does not
\* throw and changes no stored state: the selection returns none, the
\* schedule update leaves every item as it was, predict_mastery returns 0.0
\* and the bandit context is the all-zero vector of 10 components.  (The
\* lookups of predict_mastery and get_context_features take the item id
\* alone, so the learner's id does not appear in their arguments.)
C25_UnknownIdentities ==
    /\ \A tg \in TelegramIds : \A with_predictor \in BOOLEAN :
          ~UserExists(tg) =>
              get_next_word_for_review(words, is_trained, tg, with_predictor, now) = {NULL}
    /\ \A tg \in TelegramIds : \A w \in 1..(MaxWords + 1) : \A is_correct \in BOOLEAN :
          (~UserExists(tg) \/ w \notin DOMAIN words) =>
              update_word_schedule(words, sessions, tg, w, is_correct, now) = words
    /\ \A user_id \in 1..(Len(users) + 1) : \A w \in 1..(MaxWords + 1) :
          (user_id > Len(users) \/ w \notin DOMAIN words) =>
              /\ predict_mastery("MLDataService", words, is_trained, w) = {0}
              /\ get_context_features(words, w) = {[i \in 1..10 |-> 0]}

\* C26: retraining (train_model followed by apply_predictions_to_user_words)
\* is triggered exactly on the answers whose ordinal among the answers the
\* learner submitted is a multiple of 10, however next-word requests and
\* answers interleave.
C26_RetrainEveryTenthAnswer ==
    last.op = "handle_exercise_response" =>
        LET ordinal == Cardinality({i \in 1..Len(sessions) : sessions[i].user_id = UserId(last.tg)})
        IN (last.res = Retrained) <=> (ordinal % 10 = 0)

\* C27: removing an item is a soft delete: the record stays, with its active
\* flag false and its counters and scheduling state as they were, and the
\* selection no longer returns it; adding the text of an inactive record
\* again reactivates that record and creates no other.
C27_RemoveIsSoftDelete ==
    [][\A tg \in TelegramIds :
         LET w == ctx[tg].current_word_id
         IN /\ (UserExists(tg) /\ w \in DOMAIN words /\ remove_current_word(tg)) =>
                  /\ w \in DOMAIN words'
                  /\ words'[w] = [words[w] EXCEPT !.is_active = FALSE]
                  /\ \A with_predictor \in BOOLEAN :
                        w \notin get_next_word_for_review(words', is_trained', tg, with_predictor, now')
            /\ \A x \in Texts :
                  (/\ UserExists(tg) /\ add_word(tg, x)
                   /\ \E v \in DOMAIN words :
                         /\ words[v].user_id = UserId(tg) /\ words[v].dutch_word = x
                         /\ ~words[v].is_active) =>
                      /\ DOMAIN words' = DOMAIN words
                      /\ \A v \in DOMAIN words :
                            words'[v] = IF words[v].user_id = UserId(tg) /\ words[v].dutch_word = x
                                        THEN [words[v] EXCEPT !.is_active = TRUE]
                                        ELSE words[v]]_vars

\* The other active items of the learner the exercise is generated for.
OwnOthers(w) ==
    {v \in DOMAIN words : words[v].user_id = words[w].user_id /\ v # w /\ words[v].is_active}

MultipleChoice(e) ==
    e.user_word_id # NULL /\ e.exercise_type \in {"multiple_choice_en_to_nl", "multiple_choice_nl_to_en"}

\* C28 as claimed: the wrong options of a multiple-choice prompt are taken
\* from other active items of the same learner only, whatever the size of
\* the learner's vocabulary.
C28_OwnDistractorsOnly ==
    [][(exercise' # exercise /\ MultipleChoice(exercise')) =>
          exercise'.wrong_options \subseteq OwnOthers(exercise'.user_word_id)]_vars

\* C28: the wrong options of a multiple-choice prompt are min(3, n) active
\* items other than the one asked; they are taken from the same learner's
\* items only when the learner has at least 3 other active items, and from
\* the n active items of all learners when the learner has fewer.
C28_OwnDistractorsWhenEnough ==
    [][(exercise' # exercise /\ MultipleChoice(exercise')) =>
          LET w == exercise'.user_word_id
              others == {v \in DOMAIN words : v # w /\ words[v].is_active}
              wrong == exercise'.wrong_options
          IN /\ wrong \subseteq others
             /\ Cardinality(OwnOthers(w)) >= 3 =>
                   (wrong \subseteq OwnOthers(w) /\ Cardinality(wrong) = 3)
             /\ Cardinality(OwnOthers(w)) < 3 =>
                   Cardinality(wrong) = Min(3, Cardinality(others))]_vars

\* A prompt for a learner with 3 other items, while another learner has items.
C28_Witness ==
    /\ MultipleChoice(exercise)
    /\ Cardinality(OwnOthers(exercise.user_word_id)) >= 3
    /\ exercise.wrong_options = OwnOthers(exercise.user_word_id)
    /\ \E v \in DOMAIN words : words[v].user_id # words[exercise.user_word_id].user_id

\* A prompt for a learner with fewer than 3 other items, with a wrong option
\* of another learner.
C28_WitnessFallback ==
    /\ MultipleChoice(exercise)
    /\ Cardinality(OwnOthers(exercise.user_word_id)) < 3
    /\ Cardinality(exercise.wrong_options) = 3
    /\ \E v \in exercise.wrong_options : words[v].user_id # words[exercise.user_word_id].user_id

(***************************************************************************)
(* C29: for the two free-text formats check_answer accepts an answer       *)
(* exactly when, trimmed and in lower case, it equals the expected text,   *)
(* or equals it once a leading article is taken off both, or, the trimmed  *)
(* answer being longer than 3 characters, one contains the other; an       *)
(* article-like substring elsewhere than at the start is not taken off.    *)
(***************************************************************************)
strip_leading_article(text) ==
    IF startswith(text, de_article) THEN SubSeq(text, Len(de_article) + 1, Len(text))
    ELSE IF startswith(text, het_article) THEN SubSeq(text, Len(het_article) + 1, Len(text))
    ELSE text

ExpectedText(c) ==
    IF c.exercise_type = "translation_en_to_nl" THEN c.word.dutch_word ELSE c.word.english_translation

Accepted(user_answer, expected) ==
    LET answer == lower(strip(user_answer))
        text == lower(strip(expected))
    IN \/ answer = text
       \/ strip_leading_article(answer) = strip_leading_article(text)
       \/ Len(answer) > 3 /\ (contains(text, answer) \/ contains(answer, text))

C29_FreeTextAccepts ==
    checked.exercise_type \in {"translation_en_to_nl", "translation_nl_to_en"}
        => (checked.is_correct <=> Accepted(checked.user_answer, ExpectedText(checked)))

\* The answer the code accepts against C29: 'de ' taken out of the middle of
\* the answer makes it equal to the expected text without its article.
C29_StrippedElsewhere ==
    /\ checked.exercise_type = "translation_en_to_nl"
    /\ checked.is_correct
    /\ ~Accepted(checked.user_answer, ExpectedText(checked))
    /\ ~startswith(lower(strip(checked.user_answer)), de_article)

(***************************************************************************)
(* C30: when two schedule updates of the same row interleave (both read    *)
(* the row before either commits) the last write wins: the row ends as one *)
(* of the two updates applied to the row both read, and times_seen has     *)
(* grown by 1, not 2; when they do not interleave both updates take        *)
(* effect.                                                                 *)
(***************************************************************************)
BothCommitted ==
    /\ \A k \in Cycles : cycles[k].pc = "committed"
    /\ cycles[1].user_word_id = cycles[2].user_word_id

Interleaved == \A k \in Cycles : cycles[k].read_after = {}

FirstCycle == CHOOSE k \in Cycles : cycles[k].committed_after = {}
SecondCycle == CHOOSE k \in Cycles : cycles[k].committed_after # {}

BothTakeEffect ==
    /\ cycles[SecondCycle].loaded = cycles[FirstCycle].user_word
    /\ words[cycles[1].user_word_id] = cycles[SecondCycle].user_word
    /\ words[cycles[1].user_word_id].times_seen = cycles[FirstCycle].loaded.times_seen + 2

C30_LastWriteWins ==
    BothCommitted =>
        IF Interleaved
        THEN /\ words[cycles[1].user_word_id] \in {cycles[1].user_word, cycles[2].user_word}
             /\ words[cycles[1].user_word_id].times_seen = cycles[1].loaded.times_seen + 1
        ELSE BothTakeEffect

\* C30 as the code has it: the last write wins column by column.  The row
\* ends with the later commit's value in every column the later update
\* changed and with the earlier commit's value in the others, times_seen has
\* grown by 1, and the row can equal neither update.
C30_LastWriteWinsByColumn ==
    BothCommitted =>
        IF Interleaved
        THEN /\ \A f \in DOMAIN words[cycles[1].user_word_id] :
                   words[cycles[1].user_word_id][f] =
                       IF f \in dirty(cycles[SecondCycle].loaded, cycles[SecondCycle].user_word)
                       THEN cycles[SecondCycle].user_word[f]
                       ELSE cycles[FirstCycle].user_word[f]
             /\ cycles[1].loaded = cycles[2].loaded
             /\ words[cycles[1].user_word_id].times_seen = cycles[1].loaded.times_seen + 1
        ELSE BothTakeEffect

C30_Witness ==
    /\ BothCommitted
    /\ Interleaved
    /\ words[cycles[1].user_word_id] \notin {cycles[1].user_word, cycles[2].user_word}

C30_WitnessSequential == BothCommitted /\ ~Interleaved

(***************************************************************************)
(* C31: retraining an arm a second time on the same buffer is idempotent:  *)
(* the stored coefficients, intercept, scaler mean and scale and trained   *)
(* flag of the key are what the first retrain left, there is still one     *)
(* stored arm for the key, and the other arms are as they were.            *)
(***************************************************************************)
RetrainedKey == <<retrained.user_id, retrained.exercise_type>>

C31_WitnessNotFitted ==
    /\ retrained.n >= 2
    /\ RetrainedKey \notin DOMAIN bandit_models

(***************************************************************************)
(* C32: the learning sessions are an append-only log: handling an answer   *)
(* appends exactly one session, and no step (schedule update, reward       *)
(* update, retraining, removal of a word) changes or deletes a session     *)
(* that is stored.                                                         *)
(***************************************************************************)
SessionsKept ==
    /\ Len(sessions') >= Len(sessions)
    /\ \A i \in 1..Len(sessions) : sessions'[i] = sessions[i]

C32_SessionsAppendOnly ==
    [][/\ SessionsKept
       /\ Len(sessions') <= Len(sessions) + 1
       /\ last'.op = "handle_exercise_response" => Len(sessions') = Len(sessions) + 1]_vars

\* The step against C32: a removal that leaves a stored session without its word.
C32_RemovalKeepsSessions ==
    [][(\E w \in DOMAIN words : w \notin DOMAIN words') => SessionsKept]_vars

\* C32 for every step that removes no word.
C32_AppendOnlyBetweenRemovals ==
    [][(DOMAIN words \subseteq DOMAIN words') =>
          /\ SessionsKept
          /\ Len(sessions') <= Len(sessions) + 1
          /\ last'.op = "handle_exercise_response" => Len(sessions') = Len(sessions) + 1]_vars

(***************************************************************************)
(* C33: the identity an answer's session is stored under is the identity   *)
(* the features are read under: for a learner with n stored sessions on a  *)
(* word of theirs, the context the bandit is given for the learner and the *)
(* word counts n sessions, and training for the learner sees exactly the   *)
(* learner's seen words.                                                   *)
(***************************************************************************)
C33_SameIdentity ==
    \A tg \in TelegramIds :
        UserExists(tg) =>
            /\ \A w \in DOMAIN words :
                  words[w].user_id = UserId(tg) =>
                      total_sessions(sessions, ml_user_id(tg), w)
                          = Cardinality({i \in 1..Len(sessions) :
                                            /\ sessions[i].user_id = UserId(tg)
                                            /\ sessions[i].user_word_id = w})
            /\ training_rows(words, ml_user_id(tg))
                  = {w \in DOMAIN words : words[w].user_id = UserId(tg) /\ words[w].times_seen > 0}

(***************************************************************************)
(* C34: an exercise that was shown yields at most one session and at most  *)
(* one schedule update: once an answer to it has been handled, by button   *)
(* or typed, a further answer changes nothing stored until the next        *)
(* exercise is shown.  In SpecDelivery last is the answer handled since    *)
(* the exercise was shown, if any.                                         *)
(***************************************************************************)
AnswerHandled == last.op \in {"handle_exercise_response", "handle_text_input"}

C34_OneAnswerPerExercise ==
    [][AnswerHandled => (sessions' = sessions /\ words' = words)]_vars

\* The part of C34 the code has: a typed answer whose handler ran to its end
\* has cleared the exercise, and nothing is accepted until the next is shown.
C34_TypedAnswerClears ==
    [][(last.op = "handle_text_input" /\ last.res # Raised)
          => (sessions' = sessions /\ words' = words)]_vars

(***************************************************************************)
(* C35: a schedule update called for a learner changes only a word that    *)
(* the learner owns: a word of another learner is left as it is, and in    *)
(* every call the words other than the addressed one are unchanged.        *)
(***************************************************************************)
ScheduleUpdated == last'.op = "update_word_schedule"

C35_UpdatesOwnWordOnly ==
    [][ScheduleUpdated =>
          /\ DOMAIN words' = DOMAIN words
          /\ \A w \in DOMAIN words :
                words'[w] # words[w] =>
                    /\ w = last'.w
                    /\ words[w].user_id = UserId(last'.tg)]_vars

\* The part of C35 the code has: the words other than the addressed one are
\* unchanged.
C35_OtherWordsUnchanged ==
    [][ScheduleUpdated =>
          /\ DOMAIN words' = DOMAIN words
          /\ \A w \in DOMAIN words : words'[w] # words[w] => w = last'.w]_vars

(***************************************************************************)
(* C36: every word the selection returns, on every branch, is active and   *)
(* owned by the learner who asks; a deactivated word or a word of another  *)
(* learner is never returned.  No step of the program deactivates a word,  *)
(* so the selection is also asked on the table with one word deactivated.  *)
(***************************************************************************)
IsWord(r) == r \notin {NULL, Raised}

C36_PickNextOwnActive ==
    \A tg \in TelegramIds : \A with_predictor \in BOOLEAN :
        /\ \A r \in get_next_word_for_review(words, is_trained, tg, with_predictor, now) :
              IsWord(r) => (words[r].is_active /\ words[r].user_id = UserId(tg))
        /\ \A w \in DOMAIN words :
              \A r \in get_next_word_for_review([words EXCEPT ![w].is_active = FALSE],
                                                is_trained, tg, with_predictor, now) :
                  IsWord(r) => (r # w /\ words[r].user_id = UserId(tg))

\* A word is returned to the second learner while the first has a due word
\* of lower id.
C36_Witness ==
    /\ Len(users) = 2
    /\ \E r \in get_next_word_for_review(words, is_trained, users[2], FALSE, now) :
          /\ IsWord(r)
          /\ \E v \in DOMAIN words : v < r /\ words[v].user_id = 1 /\ IsDue(words[v], now)

\* A word is returned on the least-recent branch while the other learner
\* has a word never seen.
C36_WitnessLeastRecent ==
    /\ Len(users) = 2
    /\ \E r \in get_next_word_for_review(words, is_trained, users[1], FALSE, now) :
          /\ IsWord(r) /\ words[r].times_seen > 0 /\ ~IsDue(words[r], now)
          /\ \E v \in DOMAIN words :
                words[v].user_id = 2 /\ words[v].last_seen = NULL
(***************************************************************************)
(* C37: in every reachable state a word has times_seen = 0 exactly when    *)
(* its next_review_date is null, and exactly when its last_seen is null;   *)
(* so every active unseen word of a learner is in the learner's due set,   *)
(* and whenever the due set is empty the unseen-word query finds nothing.  *)
(***************************************************************************)
Unseen(row) == row.times_seen = 0

C37_UnseenIffUnscheduled ==
    /\ \A w \in DOMAIN words :
          /\ Unseen(words[w]) <=> words[w].next_review_date = NULL
          /\ words[w].next_review_date = NULL <=> words[w].last_seen = NULL
    /\ \A user_id \in 1..Len(users) :
          /\ {w \in ActiveWords(words, user_id) : Unseen(words[w])}
                \subseteq _get_due_words(words, user_id, now)
          /\ _get_due_words(words, user_id, now) = {} => _get_new_word(words, user_id) = {NULL}

\* A schedule update has just been written, and a learner has an unseen word
\* beside a seen one that is not due.
C37_Witness ==
    /\ \E user_id \in 1..Len(users) :
          /\ \E w \in ActiveWords(words, user_id) : Unseen(words[w])
          /\ \E w \in ActiveWords(words, user_id) : ~Unseen(words[w]) /\ ~IsDue(words[w], now)
    /\ last.op = "update_word_schedule"

\* Every word of a learner has been answered and none is due: the selection
\* is past the due branch and the unseen-word query finds nothing.
C37_WitnessNoneDue ==
    \E user_id \in 1..Len(users) :
        /\ ActiveWords(words, user_id) # {}
        /\ _get_due_words(words, user_id, now) = {}
(***************************************************************************)
(* C38: in every reachable state every word has                            *)
(* 0 <= times_correct <= times_seen, and while no update of the word was   *)
(* interleaved with another its times_seen is the number of schedule       *)
(* updates applied to it and its times_correct the number of the correct   *)
(* ones.                                                                   *)
(***************************************************************************)
HandledSequentially(w) == applied[w].interleaved = 0

CountsMatch(w) ==
    /\ words[w].times_seen = applied[w].updates
    /\ words[w].times_correct = applied[w].correct

C38_CorrectWithinSeen ==
    \A w \in DOMAIN words :
        /\ 0 <= words[w].times_correct
        /\ words[w].times_correct <= words[w].times_seen
        /\ HandledSequentially(w) => CountsMatch(w)

\* C38 as the code has it: the bound and the counts hold of a word whose
\* updates were handled one after the other; of any word the counters are
\* only bounded by the numbers of updates applied.
C38_CountsUnderSequentialHandling ==
    \A w \in DOMAIN words :
        /\ 0 <= words[w].times_correct
        /\ words[w].times_correct <= applied[w].correct
        /\ 0 <= words[w].times_seen
        /\ words[w].times_seen <= applied[w].updates
        /\ applied[w].updates > 0 => words[w].times_seen >= 1
        /\ HandledSequentially(w) =>
              (CountsMatch(w) /\ words[w].times_correct <= words[w].times_seen)

\* Correct and incorrect updates of a word have been applied one after the
\* other.
C38_Witness ==
    /\ last.op = "update_word_schedule"
    /\ HandledSequentially(last.w)
    /\ applied[last.w].updates >= 2
    /\ applied[last.w].correct >= 1
    /\ applied[last.w].correct < applied[last.w].updates

\* A held cycle has committed an incorrect answer over two correct ones.
C38_WitnessInterleaved ==
    \E w \in DOMAIN words :
        ~HandledSequentially(w) /\ words[w].times_correct > words[w].times_seen
(***************************************************************************)
(* C39: the mastery a schedule update writes equals                        *)
(* min(1, times_correct / 10); so it never decreases: an incorrect answer  *)
(* leaves it unchanged, and a correct answer raises it by 0.1 until it is  *)
(* 1.0 after 10 correct answers.                                           *)
(***************************************************************************)
ProgressWritten == progress.user_word.times_seen > 0

\* min(1, times_correct / 10) as a double
tenth_of_correct(times_correct) == float_min(float_one, true_divide(times_correct, 10))

C39_MasteryIsTenthOfCorrect ==
    ProgressWritten =>
        /\ progress.mastery_level = tenth_of_correct(progress.user_word.times_correct)
        /\ ~less(progress.mastery_level, progress.pre)
        /\ ~progress.is_correct => progress.mastery_level = progress.pre

\* a and b are at most n doubles apart
RECURSIVE within(_, _, _)
within(a, b, n) ==
    \/ a = b
    \/ n > 0 /\ (within(next_up(a), b, n - 1) \/ within(a, next_up(b), n - 1))

\* The operations of lines 189-190 that round: two divisions and a
\* multiplication.
roundings == 3

\* C39 as the code has it: the mastery written is min(1, times_correct / 10)
\* up to the rounding of the three operations, and it is the tenths of the
\* heuristic up to that rounding.  A correct answer raises it while fewer
\* than 10 answers were correct; an incorrect answer changes it by no more
\* than the rounding, up or down.
C39_MasteryNearTenthOfCorrect ==
    ProgressWritten =>
        /\ within(progress.mastery_level,
                  tenth_of_correct(progress.user_word.times_correct), roundings)
        /\ within(progress.mastery_level,
                  true_divide(progress.user_word.mastery_level, MasteryOne), roundings)
        /\ (progress.is_correct /\ progress.user_word.times_correct <= 10)
              => less(progress.pre, progress.mastery_level)
        /\ ~progress.is_correct => within(progress.mastery_level, progress.pre, 2 * roundings)
        /\ progress.user_word.times_correct > 10 => progress.mastery_level = float_one

\* An incorrect answer after one correct answer of two: 0.1 is replaced by
\* the double below it.
C39_Witness ==
    /\ ProgressWritten
    /\ ~progress.is_correct
    /\ progress.pre = tenth_of_correct(1)
    /\ next_up(progress.mastery_level) = progress.pre

\* Ten answers were correct and the mastery is 1.0.
C39_WitnessSaturated ==
    /\ progress.user_word.times_correct = 10
    /\ progress.is_correct
    /\ progress.mastery_level = float_one
    /\ less(progress.pre, float_one)

====
